---- MODULE Spec2Model ----
(***************************************************************************)
(* The in-guest Unix socket API of the daemon (cmd/incusd/dev_incus.go):   *)
(* the connection credential map (pidMapper), the request prologue         *)
(* (hoistReq), the endpoint handlers, the container resolver               *)
(* (findContainerForPid) and the event listeners of /1.0/events; the mount  *)
(* counting of the truenas storage driver (MountVolume, UnmountVolume) and  *)
(* the database Retry loop.                                                *)
(***************************************************************************)
EXTENDS Integers, Sequences, FiniteSets, TLC

\* ------------------------------------------------------------------ bounds
NumConns == 2
MaxPatch == 2
MaxRef == 2

Conns == 1..NumConns

\* --------------------------------------------------------------- variables
VARIABLES
    hs,         \* net/http state of each connection object
    cb,         \* position of the running ConnStateHandler call of a connection
    m,          \* pidMapper.m : connection -> captured credentials
    mLock,      \* pidMapper.mLock : 0 when free, else the connection whose callback holds it
    peer,       \* kernel peer credentials (SO_PEERCRED) of each connection
    ucredErr,   \* linux.GetUcred failed at the "new" event of the connection
    rq,         \* position of the request being served on each connection
    raced,      \* the unlocked map read of hoistReq overlapped a map write
    lk,         \* result of the prologue lookup (cred, ok) of the request
    crashed,    \* the runtime stopped the process (fatal concurrent map access)
    cfg,        \* expanded config of each instance: the two feature toggles
    xcfg,       \* expanded config of each instance: every other key
    ready,      \* local config "volatile.last_state.ready" of each instance
    idmap,      \* what CurrentIdmap() of each instance returns
    nReady,     \* instance-ready lifecycle events sent so far
    nTrans,     \* transitions from not-ready to ready so far
    lastPatch,  \* state stored by the most recent successful PATCH /1.0
    listeners,  \* connections with a listener in the DevIncusEvents registry
    resp,       \* the response written by the step just taken (NoResp otherwise)
    proc,       \* the kernel's process file system
    running,    \* running flag of each instance
    crPc,       \* position of the findContainerForPid call being followed
    crPid,      \* its pid variable
    crOrig,     \* its origpid
    crNs,       \* its origPidNs
    crK,        \* index of the instance its scan looks at
    crRes,      \* what it returns
    crLive,     \* whether the returned instance was running when it returned
    crPrev,     \* the pid its last walk iteration read (0 before the first)
    lpc,        \* position of the events handler of each subscription
    linst,      \* the instance the subscription is for
    reg,        \* the subscription's listener is in the registry
    lclosed,    \* the listener is closed
    connOpen,   \* the subscription's connection is open
    ctxDone,    \* the request context of the subscription is cancelled
    causes,     \* which of cancel, error, shutdown happened to the listener
    nDereg,     \* how often the listener was removed from the registry
    nClose,     \* how often the connection went from open to closed
    ltype,      \* the "type" form value of the subscription's request
    lfilter,    \* the message types its listener was registered with
    published,  \* the events published so far, in publish order
    queue,      \* per listener: publications accepted for it, not yet written
    delivered,  \* per listener: publications written to its transport, in order
    regAt,      \* how many events had been published when it was registered
    failAt,     \* how many events had been published when its delivery failed
    xdev,       \* expanded devices of each instance
    lvol,       \* local config of each instance: volatile.<device>.hwaddr
    refCount,   \* mount reference counter of each storage volume
    mounted,    \* linux.IsMountPoint of each mount path
    held,       \* per volume: successful MountVolume calls of the backend
                \* that no UnmountVolume call of the backend has followed yet
    mret,       \* the most recent MountVolume or UnmountVolume call
    rtPc,       \* position of the running Retry call
    rtI,        \* its loop variable i
    rtCalls,    \* calls of the wrapped function it has made
    rtErr,      \* err: what the last call of the wrapped function returned
    rtRet       \* what Retry returned

connVars == <<hs, cb, m, mLock, peer, ucredErr, rq, raced, lk, crashed>>
apiVars == <<cfg, ready, idmap, nReady, nTrans, lastPatch, listeners, resp>>
hostVars == <<proc, running>>
crVars == <<crPc, crPid, crOrig, crNs, crK, crRes, crLive, crPrev>>
pubVars == <<ltype, lfilter, published, queue, delivered, regAt, failAt>>
evVars ==
    <<lpc, linst, reg, lclosed, connOpen, ctxDone, causes, nDereg, nClose, pubVars>>
cfgVars == <<xcfg>>
mntVars == <<refCount, mounted, held, mret>>
rtVars == <<rtPc, rtI, rtCalls, rtErr, rtRet>>
devVars == <<xdev, lvol, mntVars, rtVars>>
crEnvVars == <<hostVars, crVars, evVars, cfgVars, devVars>>

\* ------------------------------------------------------ shared/util, api
\* util.IsTrue, util.IsFalse, util.IsFalseOrEmpty compare the lower-cased value
\* with fixed word lists.
Lower(s) ==
    CASE s = "Ready" -> "ready"
      [] s = "READY" -> "ready"
      [] s = "Started" -> "started"
      [] s = "Stopped" -> "stopped"
      [] s = "True" -> "true"
      [] s = "False" -> "false"
      [] OTHER -> s

IsTrue(v) == Lower(v) \in {"true", "1", "yes", "on"}

IsFalse(v) == Lower(v) \in {"false", "0", "no", "off"}

IsFalseOrEmpty(v) == v = "" \/ IsFalse(v)

FormatBoolTrue(b) == "true"

\* strconv.FormatBool
FormatBool(b) == IF b THEN "true" ELSE "false"

\* api.StatusCodeFromString: the status whose name equals the string, ignoring
\* case; "-1" when there is none.
StatusCodeFromString(s) ==
    CASE Lower(s) = "ready" -> "Ready"
      [] Lower(s) = "started" -> "Started"
      [] Lower(s) = "stopped" -> "Stopped"
      [] OTHER -> "-1"

\* ------------------------------------------------------------- instances
\* The instance database of the node: 1 is container c1 of the default project,
\* 2 is the virtual machine v1 of the default project, 3 is container c2 of
\* project p1. Names are kept as the fields a split at "_" yields.
InstIds == {1, 2, 3}
NoInst == 0
InstType(i) == IF i = 2 THEN "virtual-machine" ELSE "container"
InstProject(i) == IF i = 3 THEN "p1" ELSE "default"
InstName(i) == CASE i = 1 -> <<"c1">> [] i = 2 -> <<"v1">> [] OTHER -> <<"c2">>
InstInitPid(i) == CASE i = 1 -> 3 [] i = 3 -> 6 [] OTHER -> 0
InstMonitorPid(i) == CASE i = 1 -> 2 [] i = 3 -> 5 [] OTHER -> 0

\* inst.IsRunning() and inst.InitPID(): a stopped instance has no init process.
IsRunning(i) == running[i]
InitPID(i) == IF running[i] THEN InstInitPid(i) ELSE -1

\* instance.LoadByProjectAndName: the instance of that project and name, or none.
LoadByProjectAndName(projectName, name) ==
    LET found == {i \in InstIds : InstProject(i) = projectName /\ InstName(i) = name}
    IN IF found = {} THEN NoInst ELSE CHOOSE i \in found : TRUE

\* instance.LoadNodeAll(s, instancetype.Container): the node's instances of the
\* requested type, in database order.
AllInstances == <<1, 2, 3>>
IsOfType(i) == InstType(i) = "container"
LoadNodeAll == SelectSeq(AllInstances, IsOfType)

\* ------------------------------------------------- process file system
MaxPid == 7
Pids == 1..MaxPid
HostNs == "pid:[host]"
NsOf(i) == IF i = 1 THEN "pid:[c1]" ELSE IF i = 3 THEN "pid:[c2]" ELSE "pid:[none]"

\* One process: alive (its files can be read), monitor (cmdline starts with
\* "[lxc monitor]"), arg (last argument of the cmdline, split at "_"), nspid
\* (status holds the line "NSpid:\t<pid>"), ppid (the number of the PPid line,
\* -1 when no line matches), ns (the target of its ns/pid link).
Proc(alive, monitor, arg, nspid, ppid, ns) ==
    [alive |-> alive, monitor |-> monitor, arg |-> arg, nspid |-> nspid,
     ppid |-> ppid, ns |-> ns]
DeadProc == Proc(FALSE, FALSE, <<>>, FALSE, -1, HostNs)

\* The process table of a host that runs c1 and c2: 1 is init, 2 the monitor of
\* c1, 3 the init of c1, 4 a shell exec'd into c1 (a child of the daemon, not of
\* the monitor), 5 the monitor of c2, 6 the init of c2, 7 a host process.
HostProcs ==
    [p \in Pids |->
        CASE p = 1 -> Proc(TRUE, FALSE, <<"init">>, TRUE, 0, HostNs)
          [] p = 2 -> Proc(TRUE, TRUE, <<"c1">>, TRUE, 1, HostNs)
          [] p = 3 -> Proc(TRUE, FALSE, <<"init">>, FALSE, 2, NsOf(1))
          [] p = 4 -> Proc(TRUE, FALSE, <<"sh">>, FALSE, 1, NsOf(1))
          [] p = 5 -> Proc(TRUE, TRUE, <<"p1", "c2">>, TRUE, 1, HostNs)
          [] p = 6 -> Proc(TRUE, FALSE, <<"init">>, FALSE, 5, NsOf(3))
          [] p = 7 -> Proc(TRUE, FALSE, <<"sh">>, TRUE, 1, HostNs)
          [] OTHER -> DeadProc]

\* os.ReadFile("/proc/<pid>/cmdline"), ".../status", os.Readlink(".../ns/pid")
\* succeed only for a process that exists.
CanRead(pid) == pid \in DOMAIN proc /\ proc[pid].alive

\* ------------------------------------------------- findContainerForPid
Res(k, inst, e, pid) == [k |-> k, inst |-> inst, e |-> e, pid |-> pid]
errPIDNotInContainer == "pid not in container?"

\* The name and project the monitor's cmdline carries.
MonitorProject(arg) == IF Len(arg) > 1 THEN arg[1] ELSE "default"
MonitorName(arg) == IF Len(arg) > 1 THEN Tail(arg) ELSE arg

\* The type check of the walk: an instance that is no container is refused.
WalkTypeOk(inst) == InstType(inst) = "container"

\* One iteration of the ancestry walk at pid > 1: an error, an instance, or the
\* pid the next iteration looks at (the same pid when no PPid line matches).
WalkStep(pid) ==
    IF ~CanRead(pid) THEN Res("err", NoInst, "read", pid)
    ELSE IF proc[pid].monitor /\ proc[pid].nspid
    THEN LET inst == LoadByProjectAndName(MonitorProject(proc[pid].arg),
                                          MonitorName(proc[pid].arg))
         IN IF inst = NoInst THEN Res("err", NoInst, "load", pid)
            ELSE IF ~WalkTypeOk(inst)
            THEN Res("err", NoInst, "Instance is not container type", pid)
            ELSE Res("ret", inst, "", pid)
    ELSE IF proc[pid].ppid >= 0 THEN Res("climb", NoInst, "", proc[pid].ppid)
    ELSE Res("climb", NoInst, "", pid)

\* One iteration of the scan over the instances at position k: skip, an error,
\* or the instance whose init has the caller's pid namespace.
\* The two checks that let the scan look at an instance.
ScanCheck(inst) == InstType(inst) = "container" /\ IsRunning(inst)

ScanLinkFirstRunning(inst, origPidNs) == Res("ret", inst, "", 0)

\* The read of the init's ns/pid link and the comparison.
ScanLink(inst, origPidNs) ==
    IF ~CanRead(InitPID(inst)) THEN Res("err", NoInst, "read", 0)
    ELSE IF origPidNs = proc[InitPID(inst)].ns THEN Res("ret", inst, "", 0)
    ELSE Res("next", NoInst, "", 0)

ScanStep(k, origPidNs) ==
    IF ~ScanCheck(LoadNodeAll[k]) THEN Res("next", NoInst, "", 0)
    ELSE ScanLink(LoadNodeAll[k], origPidNs)

RECURSIVE Scan(_, _)
Scan(k, origPidNs) ==
    IF k > Len(LoadNodeAll) THEN Res("err", NoInst, errPIDNotInContainer, 0)
    ELSE LET r == ScanStep(k, origPidNs)
         IN IF r.k = "next" THEN Scan(k + 1, origPidNs) ELSE r

\* The namespace-identity fallback on the original pid.
Fallback(origpid) ==
    IF ~CanRead(origpid) THEN Res("err", NoInst, "read", 0)
    ELSE Scan(1, proc[origpid].ns)

WalkDoneAtOnce(pid) == TRUE

\* The negation of the loop condition "pid > 1" of the walk.
WalkDone(pid) == pid <= 1

\* The whole function on an unchanging process table. The walk only repeats a
\* pid when it never ends, which "hang" reports.
RECURSIVE Walk(_, _, _)
Walk(pid, origpid, fuel) ==
    IF WalkDone(pid) THEN Fallback(origpid)
    ELSE IF fuel = 0 THEN Res("hang", NoInst, "", pid)
    ELSE LET r == WalkStep(pid)
         IN IF r.k = "climb" THEN Walk(r.pid, origpid, fuel - 1) ELSE r

findContainerForPid(pid) == Walk(pid, pid, MaxPid + 1)

\* ------------------------------------------------------------ id-maps
\* What CurrentIdmap() returns: an error, no id-map, or a set of uid ranges.
Idmap(err, isNil, entries) == [err |-> err, isNil |-> isNil, entries |-> entries]
IdmapEntry(nsid, hostid, maprange) ==
    [nsid |-> nsid, hostid |-> hostid, maprange |-> maprange]
NoIdmap == Idmap(FALSE, TRUE, <<>>)
IdmapChoices ==
    {NoIdmap,
     Idmap(TRUE, TRUE, <<>>),
     Idmap(TRUE, FALSE, <<IdmapEntry(0, 100000, 65536)>>),
     Idmap(FALSE, FALSE, <<IdmapEntry(0, 100000, 65536)>>),
     Idmap(FALSE, FALSE, <<IdmapEntry(1000, 1000, 1)>>)}

\* idmapset.ShiftIntoNS(uid, _): the host id of the first range that holds the
\* in-namespace id, -1 when no range holds it.
RECURSIVE ShiftFrom(_, _, _)
ShiftFrom(entries, k, uid) ==
    IF k > Len(entries) THEN -1
    ELSE IF entries[k].nsid <= uid /\ uid < entries[k].nsid + entries[k].maprange
    THEN entries[k].hostid + (uid - entries[k].nsid)
    ELSE ShiftFrom(entries, k + 1, uid)
ShiftIntoNS(entries, uid) == ShiftFrom(entries, 1, uid)

\* uint32(x) of an int64 that is -1 or a host uid: -1 becomes the largest
\* value of the type, which no peer has as its uid. TLC's integers end at
\* 2^31 - 1, which stands for it.
MaxUint == 2147483647
Uint32(x) == IF x >= 0 THEN x ELSE (MaxUint + x) + 1

RootUIDIgnoresErr(inst) ==
    IF ~idmap[inst].isNil
    THEN Uint32(ShiftIntoNS(idmap[inst].entries, 0))
    ELSE 0

RootUIDShiftAlways(inst) == Uint32(ShiftIntoNS(idmap[inst].entries, 0))

\* rootUID of hoistReq: host uid 0 unless the id-map was read and is not nil.
RootUID(inst) ==
    IF ~idmap[inst].err /\ ~idmap[inst].isNil
    THEN Uint32(ShiftIntoNS(idmap[inst].entries, 0))
    ELSE 0

\* ------------------------------------------------------------ requests
Cred(pid, uid) == [pid |-> pid, uid |-> uid]
NoCred == Cred(0, 0)

\* A request: path pattern and method, the state of a PATCH body ("{" is a body
\* that is no JSON), the key of /1.0/config/{key}, whether it asks for a
\* websocket, and whether the one call of its handler that can fail does fail.
Req(path, method, body, key, ws, fail) ==
    [path |-> path, method |-> method, body |-> body, key |-> key, ws |-> ws,
     fail |-> fail]
Methods == {"GET", "PATCH", "POST"}

\* A config key is its prefix up to the first dot and the rest; a raw key of a
\* request path also tells whether its percent-escapes are malformed.
Key(prefix, rest) == [prefix |-> prefix, rest |-> rest]
RawKey(bad, prefix, rest) == [bad |-> bad, prefix |-> prefix, rest |-> rest]
NoKey == RawKey(FALSE, "", "")
RawKeys ==
    {RawKey(FALSE, "user.", "hello"), RawKey(FALSE, "user.", "none"),
     RawKey(FALSE, "cloud-init.", "user-data"), RawKey(FALSE, "other.", "key"),
     RawKey(TRUE, "user.", "%zz")}
Bodies == {"Ready", "READY", "Started", "Stopped", "", "{"}
PlainPaths == {"/", "/1.0/config", "/1.0/meta-data", "/1.0/devices"}
Requests ==
    {Req(p, mt, "", NoKey, FALSE, FALSE) : p \in PlainPaths, mt \in Methods}
    \cup {Req("/1.0", "GET", "", NoKey, FALSE, f) : f \in BOOLEAN}
    \cup {Req("/1.0", "PATCH", b, NoKey, FALSE, f) : b \in Bodies, f \in BOOLEAN}
    \cup {Req("/1.0", "POST", "", NoKey, FALSE, FALSE)}
    \cup {Req("/1.0/config/{key}", "GET", "", k, FALSE, FALSE) : k \in RawKeys}
    \cup {Req("/1.0/events", "GET", "", NoKey, w, f) : w \in BOOLEAN, f \in BOOLEAN}
    \cup {Req("/1.0/images/{fingerprint}/export", "GET", "", NoKey, FALSE, f) :
            f \in BOOLEAN}

\* The "type" parameter of a request for /1.0/events: absent, or a string,
\* written as the sequence of its words and commas.
Param(present, value) == [present |-> present, value |-> value]
NoParam == Param(FALSE, <<>>)
TypeParams ==
    {NoParam, Param(TRUE, <<>>), Param(TRUE, <<"lifecycle">>),
     Param(TRUE, <<"config", ",", "lifecycle">>)}

\* r.FormValue("type"): "" for a parameter that is absent.
FormValue(param) == IF param.present THEN param.value ELSE <<>>

\* strings.Split(s, ","): the fields between the commas, one field for a
\* string without comma, the empty string included.
RECURSIVE SplitFrom(_, _, _)
SplitFrom(str, k, field) ==
    IF k > Len(str) THEN <<field>>
    ELSE IF str[k] = "," THEN <<field>> \o SplitFrom(str, k + 1, <<>>)
    ELSE SplitFrom(str, k + 1, Append(field, str[k]))
Split(str) == SplitFrom(str, 1, <<>>)

\* typeStr of devIncusEventsGet: "config,device" when the form value is "".
TypeStr(param) ==
    IF FormValue(param) = <<>> THEN <<"config", ",", "device">> ELSE FormValue(param)

\* The message types passed to AddListener.
MessageTypes(param) == Split(TypeStr(param))

\* What a handler does: the status and body of its response, the value it
\* stores in volatile.last_state.ready ("" when it stores none), whether it
\* sends the lifecycle event, the transport it hijacks the connection for
\* ("" when it does not), and whether it calls imageExport; list is the
\* metadata of a response that is a list, origin the RemoteAddr of the request
\* when the handler is done with it.
Out(status, body, set, emit, hijack, export) ==
    [status |-> status, body |-> body, set |-> set, emit |-> emit,
     hijack |-> hijack, export |-> export, list |-> <<>>, origin |-> "",
     read |-> FALSE, devices |-> <<>>]
Answer(status, body) == Out(status, body, "", FALSE, "", FALSE)
NotAuthorized == Answer(403, "not authorized")

\* The expanded config of an instance besides the toggles.
UserConfig ==
    [k \in {Key("user.", "hello"), Key("cloud-init.", "user-data"),
            Key("other.", "key")} |->
        IF k.prefix = "other." THEN "secret" ELSE "world"]

\* c.ExpandedConfig() without the toggles.
ExpandedConfig(inst) == xcfg[inst]

\* The config keys an instance can have besides the toggles, and the config
\* maps made of them; the value tells the key it belongs to.
KnownKeys ==
    {Key("user.", "hello"), Key("user.", "none"), Key("cloud-init.", "user-data"),
     Key("other.", "key")}
ConfigValue(k) ==
    CASE k = Key("user.", "hello") -> "world"
      [] k = Key("user.", "none") -> "nothing"
      [] k = Key("cloud-init.", "user-data") -> "#cloud-config"
      [] OTHER -> "secret"
ConfigMaps == {[k \in ks |-> ConfigValue(k)] : ks \in SUBSET KnownKeys}

\* strings.HasPrefix(key, prefix)
HasPrefix(k, prefix) == k.prefix = prefix

GuestapiDisabledCached(inst) == FALSE

\* util.IsFalse(c.ExpandedConfig()["security.guestapi"])
GuestapiDisabled(inst) == IsFalse(cfg[inst].guestapi)

\* handlers[0], "/"
devIncusRoot(inst, r) == Answer(200, "/1.0")

KeyListedUserOnly(k) == HasPrefix(k, "user.")

\* The filter of the config list.
KeyListed(k) == HasPrefix(k, "user.") \/ HasPrefix(k, "cloud-init.")

\* fmt.Sprintf("/1.0/config/%s", k)
ConfigURL(k) == [dir |-> "/1.0/config/", key |-> k]

\* The loop over the expanded config: the keys are visited one by one, in an
\* order of the map's choosing, and the listed ones are appended.
RECURSIVE Filtered(_, _)
Filtered(config, todo) ==
    IF todo = {} THEN <<>>
    ELSE LET k == CHOOSE x \in todo : TRUE
             rest == Filtered(config, todo \ {k})
         IN IF KeyListed(k) THEN <<ConfigURL(k)>> \o rest ELSE rest

devIncusConfigGet(inst, r) ==
    IF GuestapiDisabled(inst) THEN NotAuthorized
    ELSE [Answer(200, "keys") EXCEPT
            !.list = Filtered(ExpandedConfig(inst), DOMAIN ExpandedConfig(inst))]

KeyReadableAny(key) == TRUE

\* The prefix check of a single key.
KeyReadable(key) == HasPrefix(key, "user.") \/ HasPrefix(key, "cloud-init.")

devIncusConfigKeyGet(inst, r) ==
    IF GuestapiDisabled(inst) THEN NotAuthorized
    ELSE IF r.key.bad THEN Answer(400, "bad request")
    ELSE LET key == Key(r.key.prefix, r.key.rest)
         IN IF ~KeyReadable(key)
            THEN NotAuthorized
            ELSE IF key \notin DOMAIN ExpandedConfig(inst)
            THEN Answer(404, "not found")
            ELSE Answer(200, ExpandedConfig(inst)[key])

\* The call of imageExport: r.RemoteAddr is set before it.
Exported(status, body) ==
    [Out(status, body, "", FALSE, "", TRUE) EXCEPT !.origin = "@dev_incus"]

devIncusImageExportUngated(inst, r) ==
    IF GuestapiDisabled(inst) THEN NotAuthorized
    ELSE IF r.fail THEN Exported(500, "internal server error")
    ELSE Exported(200, "")

devIncusImageExport(inst, r) ==
    IF GuestapiDisabled(inst) THEN NotAuthorized
    ELSE IF IsFalseOrEmpty(cfg[inst].images) THEN NotAuthorized
    ELSE IF r.fail THEN Exported(500, "internal server error")
    ELSE Exported(200, "")

devIncusMetadataGet(inst, r) ==
    IF GuestapiDisabled(inst) THEN NotAuthorized
    ELSE Answer(200, "#cloud-config")

\* The part of the events handler up to the upgrade or hijack.
devIncusEventsGet(inst, r) ==
    IF GuestapiDisabled(inst) THEN NotAuthorized
    ELSE IF r.fail THEN Answer(500, "internal server error")
    ELSE Out(200, "", "", FALSE, IF r.ws THEN "ws" ELSE "stream", FALSE)

ValidStateAny(state) == state # "-1"

\* The states PATCH /1.0 accepts.
ValidState(state) == state = "Started" \/ state = "Ready"

ApiStateUnlessFalse(inst) == IF ~IsFalse(ready[inst]) THEN "Ready" ELSE "Started"

\* The state GET /1.0 reports.
ApiState(inst) == IF IsTrue(ready[inst]) THEN "Ready" ELSE "Started"

\* Whether PATCH /1.0 sends the instance-ready lifecycle event.
SendsLifecycle(inst, state) == state = "Ready"

\* json.NewDecoder(r.Body).Decode: the handler has read the request body.
Decoded(out) == [out EXCEPT !.read = TRUE]

StoreReadyEventFirst(inst, r, state) ==
    IF r.fail
    THEN Decoded(Out(500, "VolatileSet", "", SendsLifecycle(inst, state), "", FALSE))
    ELSE Decoded(Out(200, "", FormatBool(state = "Ready"),
                     SendsLifecycle(inst, state), "", FALSE))

\* The end of PATCH /1.0 for a valid state: c.VolatileSet, whose error is
\* answered 500, then the lifecycle event and the empty 200.
StoreReady(inst, r, state) ==
    IF r.fail THEN Decoded(Answer(500, "VolatileSet"))
    ELSE Decoded(Out(200, "", FormatBool(state = "Ready"),
                     SendsLifecycle(inst, state), "", FALSE))

devIncusAPIHandlerUngated(inst, r) ==
    IF r.method = "GET"
    THEN IF r.fail THEN Answer(500, "internal server error")
         ELSE Answer(200, ApiState(inst))
    ELSE IF r.method = "PATCH"
    THEN IF r.body = "{" THEN Decoded(Answer(400, "decode"))
         ELSE LET state == StatusCodeFromString(r.body)
              IN IF ~ValidState(state)
                 THEN Decoded(Answer(400, "Invalid state"))
                 ELSE StoreReady(inst, r, state)
    ELSE Answer(405, "method not allowed")

devIncusAPIHandler(inst, r) ==
    IF r.method = "GET"
    THEN IF r.fail THEN Answer(500, "internal server error")
         ELSE Answer(200, ApiState(inst))
    ELSE IF r.method = "PATCH"
    THEN IF GuestapiDisabled(inst) THEN NotAuthorized
         ELSE IF r.body = "{" THEN Decoded(Answer(400, "decode"))
         ELSE LET state == StatusCodeFromString(r.body)
              IN IF ~ValidState(state)
                 THEN Decoded(Answer(400, "Invalid state"))
                 ELSE StoreReady(inst, r, state)
    ELSE Answer(405, "method not allowed")

\* A config map is a function from the keys it holds; m[key] of a Go map is ""
\* for a key it does not hold.
Get(config, key) == IF key \in DOMAIN config THEN config[key] ELSE ""
Put(config, key, value) ==
    [k \in DOMAIN config \cup {key} |-> IF k = key THEN value ELSE config[k]]

\* fmt.Sprintf("volatile.%s.hwaddr", devName)
VolatileHwaddr(devName) == <<"volatile.", devName, ".hwaddr">>

\* The devices an instance can have: eth0 of either type, with its hwaddr
\* unset, empty or given; eth1, a nic with its hwaddr unset or given. The
\* volatile keys of the local config: unset, empty or an address.
DevNames == {"eth0", "eth1"}
DevConfigs(devName) ==
    IF devName = "eth0"
    THEN {[type |-> t] : t \in {"nic", "disk"}}
         \cup {[type |-> t, hwaddr |-> h] : t \in {"nic", "disk"}, h \in {"", "aa:00"}}
    ELSE {[type |-> "nic"], [type |-> "nic", hwaddr |-> "aa:01"]}
DeviceMaps ==
    UNION {{d \in [names -> UNION {DevConfigs(n) : n \in names}] :
                \A n \in names : d[n] \in DevConfigs(n)} : names \in SUBSET DevNames}
VolatileMaps ==
    UNION {{v \in [{VolatileHwaddr(n) : n \in names} -> {"", "bb:00", "bb:01"}] :
                \A n \in names :
                    v[VolatileHwaddr(n)] \in
                        (IF n = "eth0" THEN {"", "bb:00"} ELSE {"bb:01"})} :
           names \in SUBSET DevNames}
DefaultDevices == [n \in DevNames |-> [type |-> IF n = "eth0" THEN "nic" ELSE "disk"]]
DefaultVolatile == [k \in {VolatileHwaddr("eth0")} |-> "bb:00"]

\* c.LocalConfig(), the volatile keys of it.
LocalConfig(inst) == lvol[inst]

\* c.ExpandedDevices(): the device map of the instance object loaded for the
\* request; every call returns that same map.
ExpandedDevices(inst) == xdev[inst]

NeedsHwaddrAnyType(devConfig, localConfig, devName) ==
    /\ Get(devConfig, "hwaddr") = ""
    /\ Get(localConfig, VolatileHwaddr(devName)) # ""

\* The condition of the loop of devIncusDevicesGet.
NeedsHwaddr(devConfig, localConfig, devName) ==
    /\ Get(devConfig, "type") = "nic"
    /\ Get(devConfig, "hwaddr") = ""
    /\ Get(localConfig, VolatileHwaddr(devName)) # ""

\* The loop of devIncusDevicesGet: it writes into the map that
\* c.ExpandedDevices() returned, which the second call returns again.
PopulateHwaddr(devices, localConfig) ==
    [devName \in DOMAIN devices |->
        IF NeedsHwaddr(devices[devName], localConfig, devName)
        THEN Put(devices[devName], "hwaddr", Get(localConfig, VolatileHwaddr(devName)))
        ELSE devices[devName]]

devIncusDevicesGet(inst, r) ==
    IF GuestapiDisabled(inst) THEN NotAuthorized
    ELSE [Answer(200, "devices") EXCEPT
            !.devices = PopulateHwaddr(ExpandedDevices(inst), LocalConfig(inst))]

\* The router: the handler registered for the path, whatever the method.
handlers(inst, r) ==
    CASE r.path = "/" -> devIncusRoot(inst, r)
      [] r.path = "/1.0" -> devIncusAPIHandler(inst, r)
      [] r.path = "/1.0/config" -> devIncusConfigGet(inst, r)
      [] r.path = "/1.0/config/{key}" -> devIncusConfigKeyGet(inst, r)
      [] r.path = "/1.0/meta-data" -> devIncusMetadataGet(inst, r)
      [] r.path = "/1.0/events" -> devIncusEventsGet(inst, r)
      [] r.path = "/1.0/images/{fingerprint}/export" -> devIncusImageExport(inst, r)
      [] OTHER -> devIncusDevicesGet(inst, r)

AccessDeniedUnlessHostRoot(rootUID, uid) == uid # 0 /\ rootUID # uid

\* The access check of hoistReq.
AccessDenied(rootUID, uid) == rootUID # uid

LookupOkAlways(l) == TRUE

\* Whether the prologue goes on after the lookup.
LookupOk(l) == l.ok

\* hoistReq after the lookup: the refusal of the prologue, or the handler's
\* result; ran tells whether the handler was invoked, inst the instance, cr
\* whether findContainerForPid was called.
Hoisted(out, ran, inst, cr) == [out |-> out, ran |-> ran, inst |-> inst, cr |-> cr]
hoistReqUnhoisted(l, r) == Hoisted(handlers(1, r), TRUE, 1, FALSE)
hoistReq(l, r) ==
    IF ~LookupOk(l)
    THEN Hoisted(Answer(500, errPIDNotInContainer), FALSE, NoInst, FALSE)
    ELSE LET f == findContainerForPid(l.cred.pid)
         IN IF f.k # "ret" THEN Hoisted(Answer(500, f.e), FALSE, NoInst, TRUE)
            ELSE IF AccessDenied(RootUID(f.inst), l.cred.uid)
            THEN Hoisted(Answer(401, "Access denied for non-root user"), FALSE,
                         f.inst, TRUE)
            ELSE Hoisted(handlers(f.inst, r), TRUE, f.inst, TRUE)

\* ------------------------------------------------- connections, pidMapper
\* The response to a request, with what hoistReq and the handler did for it.
NoResp ==
    [c |-> 0, path |-> "", method |-> "", status |-> 0, body |-> "",
     ran |-> FALSE, export |-> FALSE, cr |-> FALSE, inst |-> NoInst,
     list |-> <<>>, origin |-> "", key |-> NoKey, reqbody |-> "",
     read |-> FALSE, devices |-> <<>>]
Resp(c, r, h) ==
    [c |-> c, path |-> r.path, method |-> r.method, status |-> h.out.status,
     body |-> h.out.body, ran |-> h.ran, export |-> h.out.export, cr |-> h.cr,
     inst |-> h.inst, list |-> h.out.list, origin |-> h.out.origin,
     key |-> r.key, reqbody |-> r.body, read |-> h.out.read,
     devices |-> h.out.devices]
NoReq == Req("", "", "", NoKey, FALSE, FALSE)

\* The lookup result: ok and cred as the map read returned them, had whether
\* the map held a record for the connection when it was read, inst the
\* instance the request was resolved to (set when the handler hijacks).
Lk(ok, cred, had, inst) == [ok |-> ok, cred |-> cred, had |-> had, inst |-> inst]
NoLk == Lk(FALSE, NoCred, FALSE, NoInst)

\* ConnStateHandler up to its first lock: which states go on to the map.
ConnStateHandlerInsertAlways(state, ucredOk) ==
    CASE state \in {"new", "hijacked", "closed"} -> "lock"
      [] OTHER -> "none"
ConnStateHandlerNoPurge(state, ucredOk) ==
    CASE state = "new" -> IF ucredOk THEN "lock" ELSE "none"
      [] state = "hijacked" -> "lock"
      [] OTHER -> "none"
ConnStateHandler(state, ucredOk) ==
    CASE state = "new" -> IF ucredOk THEN "lock" ELSE "none"
      [] state = "active" -> "none"
      [] state = "idle" -> "none"
      [] state = "hijacked" -> "lock"
      [] state = "closed" -> "lock"
      [] OTHER -> "none"

\* The map after the locked statement of ConnStateHandler for the state.
MapInsert(c) == [x \in DOMAIN m \cup {c} |-> IF x = c THEN peer[c] ELSE m[x]]
MapDelete(c) == [x \in DOMAIN m \ {c} |-> m[x]]
pidMapperUpdateKeepHijacked(c, state) ==
    CASE state = "new" -> MapInsert(c)
      [] state = "closed" -> MapDelete(c)
      [] OTHER -> m
pidMapperUpdateKeepClosed(c, state) ==
    CASE state = "new" -> MapInsert(c)
      [] state = "hijacked" -> MapDelete(c)
      [] OTHER -> m
pidMapperUpdate(c, state) ==
    CASE state = "new" -> MapInsert(c)
      [] state = "hijacked" -> MapDelete(c)
      [] state = "closed" -> MapDelete(c)
      [] OTHER -> m

\* The server accepts a connection and calls the state callback with "new"
\* in the accept loop, before it starts to serve the connection.
Accept(c, peers) ==
    /\ ~crashed
    /\ hs[c] = "none"
    /\ \A d \in Conns : ~(hs[d] = "new" /\ cb[d] # "none")
    /\ \E p \in peers, ucredOk \in BOOLEAN :
        /\ peer' = [peer EXCEPT ![c] = p]
        /\ hs' = [hs EXCEPT ![c] = "new"]
        /\ cb' = [cb EXCEPT ![c] = ConnStateHandler("new", ucredOk)]
        /\ ucredErr' = [ucredErr EXCEPT ![c] = ~ucredOk]
    /\ resp' = NoResp
    /\ UNCHANGED <<m, mLock, rq, raced, lk, crashed>>
    /\ UNCHANGED <<cfg, ready, idmap, nReady, nTrans, lastPatch, listeners>>
    /\ UNCHANGED crEnvVars

\* m.mLock.Lock() of the callback; a map read in progress now overlaps a write.
ConnStateLock(c) ==
    /\ ~crashed
    /\ cb[c] = "lock"
    /\ mLock = 0
    /\ mLock' = c
    /\ cb' = [cb EXCEPT ![c] = "write"]
    /\ raced' = [d \in Conns |-> raced[d] \/ rq[d] = "reading"]
    /\ resp' = NoResp
    /\ UNCHANGED <<hs, m, peer, ucredErr, rq, lk, crashed>>
    /\ UNCHANGED <<cfg, ready, idmap, nReady, nTrans, lastPatch, listeners>>
    /\ UNCHANGED crEnvVars

\* The insert or delete, m.mLock.Unlock() and the return of the callback.
ConnStateWrite(c) ==
    /\ ~crashed
    /\ cb[c] = "write"
    /\ m' = pidMapperUpdate(c, hs[c])
    /\ mLock' = 0
    /\ cb' = [cb EXCEPT ![c] = "none"]
    /\ resp' = NoResp
    /\ UNCHANGED <<hs, peer, ucredErr, rq, raced, lk, crashed>>
    /\ UNCHANGED <<cfg, ready, idmap, nReady, nTrans, lastPatch, listeners>>
    /\ UNCHANGED crEnvVars

\* A request arrives (state "active", a no-op of the callback) and hoistReq
\* starts reading pidMapper.m, without the lock.
BeginRequest(c) ==
    /\ ~crashed
    /\ hs[c] \in {"new", "idle"}
    /\ cb[c] = "none"
    /\ rq[c] = "none"
    /\ hs' = [hs EXCEPT ![c] = "active"]
    /\ rq' = [rq EXCEPT ![c] = "reading"]
    /\ raced' = [raced EXCEPT ![c] = mLock # 0]
    /\ lk' = [lk EXCEPT ![c] = NoLk]
    /\ resp' = NoResp
    /\ UNCHANGED <<cb, m, mLock, peer, ucredErr, crashed>>
    /\ UNCHANGED <<cfg, ready, idmap, nReady, nTrans, lastPatch, listeners>>
    /\ UNCHANGED crEnvVars

\* What the unlocked read can yield: the map's answer; when it overlapped a
\* write, also a miss, a found key whose value is still nil (the handler
\* panics and the server closes the connection), or the runtime's fatal error.
LookupOutcomes(c) ==
    IF raced[c]
    THEN {"read", "miss", "fatal"} \cup (IF c \in DOMAIN m THEN {"nil"} ELSE {})
    ELSE {"read"}

LookupRead(c) ==
    /\ ~crashed
    /\ rq[c] = "reading"
    /\ lk' = [lk EXCEPT ![c] =
                IF c \in DOMAIN m THEN Lk(TRUE, m[c], TRUE, NoInst) ELSE NoLk]
    /\ rq' = [rq EXCEPT ![c] = "looked"]
    /\ resp' = NoResp
    /\ UNCHANGED <<hs, cb, m, mLock, peer, ucredErr, raced, crashed>>
    /\ UNCHANGED <<cfg, ready, idmap, nReady, nTrans, lastPatch, listeners>>
    /\ UNCHANGED crEnvVars

LookupMiss(c) ==
    /\ ~crashed
    /\ rq[c] = "reading"
    /\ "miss" \in LookupOutcomes(c)
    /\ lk' = [lk EXCEPT ![c] = Lk(FALSE, NoCred, c \in DOMAIN m, NoInst)]
    /\ rq' = [rq EXCEPT ![c] = "looked"]
    /\ resp' = NoResp
    /\ UNCHANGED <<hs, cb, m, mLock, peer, ucredErr, raced, crashed>>
    /\ UNCHANGED <<cfg, ready, idmap, nReady, nTrans, lastPatch, listeners>>
    /\ UNCHANGED crEnvVars

LookupNil(c) ==
    /\ ~crashed
    /\ rq[c] = "reading"
    /\ "nil" \in LookupOutcomes(c)
    /\ hs' = [hs EXCEPT ![c] = "closed"]
    /\ cb' = [cb EXCEPT ![c] = ConnStateHandler("closed", TRUE)]
    /\ rq' = [rq EXCEPT ![c] = "none"]
    /\ resp' = NoResp
    /\ UNCHANGED <<m, mLock, peer, ucredErr, raced, lk, crashed>>
    /\ UNCHANGED <<cfg, ready, idmap, nReady, nTrans, lastPatch, listeners>>
    /\ UNCHANGED crEnvVars

LookupFatal(c) ==
    /\ ~crashed
    /\ rq[c] = "reading"
    /\ "fatal" \in LookupOutcomes(c)
    /\ crashed' = TRUE
    /\ resp' = NoResp
    /\ UNCHANGED <<hs, cb, m, mLock, peer, ucredErr, rq, raced, lk>>
    /\ UNCHANGED <<cfg, ready, idmap, nReady, nTrans, lastPatch, listeners>>
    /\ UNCHANGED crEnvVars

\* The rest of hoistReq for one request of the set reqs: resolver, access
\* check, handler, and the handler's effects. A handler that hijacks goes on in
\* EventsRegister once the "hijacked" callback has returned; every other
\* request is answered and the connection becomes idle.
Serve(c, reqs) ==
    /\ ~crashed
    /\ rq[c] = "looked"
    /\ \E r \in reqs :
        LET h == hoistReq(lk[c], r)
            o == h.out
            i == h.inst
        IN /\ o.emit => nReady[i] < MaxPatch
           /\ ready' = IF o.set # "" THEN [ready EXCEPT ![i] = o.set] ELSE ready
           /\ lastPatch' = IF o.set # ""
                           THEN [lastPatch EXCEPT ![i] = Lower(r.body)]
                           ELSE lastPatch
           /\ nTrans' = IF o.set # "" /\ IsTrue(o.set) /\ ~IsTrue(ready[i])
                        THEN [nTrans EXCEPT ![i] = @ + 1] ELSE nTrans
           /\ nReady' = IF o.emit THEN [nReady EXCEPT ![i] = @ + 1] ELSE nReady
           /\ IF o.hijack # ""
              THEN /\ hs' = [hs EXCEPT ![c] = "hijacked"]
                   /\ cb' = [cb EXCEPT ![c] = ConnStateHandler("hijacked", TRUE)]
                   /\ rq' = [rq EXCEPT ![c] = o.hijack]
                   /\ lk' = [lk EXCEPT ![c].inst = i]
                   /\ resp' = NoResp
              ELSE /\ hs' = [hs EXCEPT ![c] = "idle"]
                   /\ cb' = [cb EXCEPT ![c] = ConnStateHandler("idle", TRUE)]
                   /\ rq' = [rq EXCEPT ![c] = "none"]
                   /\ lk' = lk
                   /\ resp' = Resp(c, r, h)
    /\ UNCHANGED <<m, mLock, peer, ucredErr, raced, crashed>>
    /\ UNCHANGED <<cfg, idmap, listeners>>
    /\ UNCHANGED crEnvVars

\* The events handler after the hijack: building the stream connection or
\* AddListener fails (500, the deferred Close ends the connection), or the
\* listener is registered and the handler waits.
EventsRegister(c) ==
    /\ ~crashed
    /\ rq[c] \in {"ws", "stream"}
    /\ cb[c] = "none"
    /\ \E failed \in BOOLEAN :
        IF failed
        THEN /\ rq' = [rq EXCEPT ![c] = "none"]
             /\ listeners' = listeners
             /\ resp' = [NoResp EXCEPT !.c = c, !.path = "/1.0/events",
                                       !.method = "GET", !.status = 500,
                                       !.ran = TRUE]
        ELSE /\ rq' = [rq EXCEPT ![c] = "waiting"]
             /\ listeners' = [listeners EXCEPT ![c] = lk[c].inst]
             /\ resp' = NoResp
    /\ UNCHANGED <<hs, cb, m, mLock, peer, ucredErr, raced, lk, crashed>>
    /\ UNCHANGED <<cfg, ready, idmap, nReady, nTrans, lastPatch>>
    /\ UNCHANGED crEnvVars

\* listener.Wait returns (the request context or the listener ended) and the
\* handler returns; its deferred Close ends the connection.
EventsReturn(c) ==
    /\ ~crashed
    /\ rq[c] = "waiting"
    /\ rq' = [rq EXCEPT ![c] = "none"]
    /\ resp' = [NoResp EXCEPT !.c = c, !.path = "/1.0/events", !.method = "GET",
                              !.status = 200, !.ran = TRUE]
    /\ UNCHANGED <<hs, cb, m, mLock, peer, ucredErr, raced, lk, crashed>>
    /\ UNCHANGED <<cfg, ready, idmap, nReady, nTrans, lastPatch, listeners>>
    /\ UNCHANGED crEnvVars

\* The event server drops a listener whose connection ended or failed.
ListenerGone(c) ==
    /\ ~crashed
    /\ listeners[c] # NoInst
    /\ listeners' = [listeners EXCEPT ![c] = NoInst]
    /\ resp' = NoResp
    /\ UNCHANGED connVars
    /\ UNCHANGED <<cfg, ready, idmap, nReady, nTrans, lastPatch>>
    /\ UNCHANGED crEnvVars

\* The peer or the server closes a connection that serves no request: the
\* state callback is called with "closed".
Close(c) ==
    /\ ~crashed
    /\ hs[c] \in {"new", "idle"}
    /\ cb[c] = "none"
    /\ rq[c] = "none"
    /\ hs' = [hs EXCEPT ![c] = "closed"]
    /\ cb' = [cb EXCEPT ![c] = ConnStateHandler("closed", TRUE)]
    /\ resp' = NoResp
    /\ UNCHANGED <<m, mLock, peer, ucredErr, rq, raced, lk, crashed>>
    /\ UNCHANGED <<cfg, ready, idmap, nReady, nTrans, lastPatch, listeners>>
    /\ UNCHANGED crEnvVars

\* A connection object that ended is collected; its identity can be used again.
Reap(c) ==
    /\ ~crashed
    /\ hs[c] \in {"closed", "hijacked"}
    /\ cb[c] = "none"
    /\ rq[c] = "none"
    /\ listeners[c] = NoInst
    /\ hs' = [hs EXCEPT ![c] = "none"]
    /\ peer' = [peer EXCEPT ![c] = NoCred]
    /\ ucredErr' = [ucredErr EXCEPT ![c] = FALSE]
    /\ lk' = [lk EXCEPT ![c] = NoLk]
    /\ raced' = [raced EXCEPT ![c] = FALSE]
    /\ resp' = NoResp
    /\ UNCHANGED <<cb, m, mLock, rq, crashed>>
    /\ UNCHANGED <<cfg, ready, idmap, nReady, nTrans, lastPatch, listeners>>
    /\ UNCHANGED crEnvVars

\* The instance's configuration is changed through the daemon's main API.
ToggleValues == {"", "true", "false"}
SetConfig(i) ==
    /\ ~crashed
    /\ \E g \in ToggleValues, im \in ToggleValues :
        /\ cfg[i] # [guestapi |-> g, images |-> im]
        /\ cfg' = [cfg EXCEPT ![i] = [guestapi |-> g, images |-> im]]
    /\ resp' = NoResp
    /\ UNCHANGED connVars
    /\ UNCHANGED <<ready, idmap, nReady, nTrans, lastPatch, listeners>>
    /\ UNCHANGED crEnvVars

\* The same with every kind of value a config string can have: unset, the
\* words for true and false, and a word that is neither.
ConfigStrings == ToggleValues \cup {"yes", "maybe"}
SetConfigAny(i) ==
    /\ ~crashed
    /\ \E g \in ConfigStrings, im \in ConfigStrings :
        /\ cfg[i] # [guestapi |-> g, images |-> im]
        /\ cfg' = [cfg EXCEPT ![i] = [guestapi |-> g, images |-> im]]
    /\ resp' = NoResp
    /\ UNCHANGED connVars
    /\ UNCHANGED <<ready, idmap, nReady, nTrans, lastPatch, listeners>>
    /\ UNCHANGED crEnvVars

\* ----------------------------------------------------- specifications
vars == <<connVars, apiVars, hostVars, crVars, evVars, cfgVars, devVars>>

InitConn ==
    /\ hs = [c \in Conns |-> "none"]
    /\ cb = [c \in Conns |-> "none"]
    /\ m = <<>>
    /\ mLock = 0
    /\ peer = [c \in Conns |-> NoCred]
    /\ ucredErr = [c \in Conns |-> FALSE]
    /\ rq = [c \in Conns |-> "none"]
    /\ raced = [c \in Conns |-> FALSE]
    /\ lk = [c \in Conns |-> NoLk]
    /\ crashed = FALSE

InitCfg == xcfg = [i \in InstIds |-> UserConfig]

InitApi ==
    /\ cfg = [i \in InstIds |-> [guestapi |-> "", images |-> ""]]
    /\ nReady = [i \in InstIds |-> 0]
    /\ nTrans = [i \in InstIds |-> 0]
    /\ lastPatch = [i \in InstIds |-> ""]
    /\ listeners = [c \in Conns |-> NoInst]
    /\ resp = NoResp

InitHost ==
    /\ proc = HostProcs
    /\ running = [i \in InstIds |-> InstType(i) = "container"]

InitCR ==
    /\ crPc = "idle"
    /\ crPid = 0
    /\ crOrig = 0
    /\ crNs = ""
    /\ crK = 0
    /\ crRes = Res("", NoInst, "", 0)
    /\ crLive = FALSE
    /\ crPrev = 0

\* The storage volumes of the truenas driver: a custom filesystem volume, a
\* container volume with block.filesystem set (a loop-mounted image on a
\* dataset), the clone of it that stands for that dataset, a virtual machine's
\* block volume and the filesystem volume of the same machine.
Volumes == {"custom", "ct", "ct.fsimg", "vm", "vm.fs"}

\* vol.MountPath(): mountCustomPath when set, else the path made of pool,
\* volume type and name; the content type is no part of it.
MountPath(vol) ==
    CASE vol = "custom" -> "/custom/custom"
      [] vol = "ct" -> "/containers/ct"
      [] vol = "ct.fsimg" -> "/containers/ct.block"
      [] OTHER -> "/virtual-machines/vm"
MountPaths == {MountPath(v) : v \in Volumes}

NoMRet == [op |-> "", vol |-> "", err |-> "", before |-> 0, wasMounted |-> FALSE]

\* No volume is mounted and no counter is held when the daemon starts.
InitMount ==
    /\ refCount = [v \in Volumes |-> 0]
    /\ mounted = [p \in MountPaths |-> FALSE]
    /\ held = [v \in Volumes |-> 0]
    /\ mret = NoMRet

\* No error: nil.
Nil == <<>>

InitRetry ==
    /\ rtPc = "idle"
    /\ rtI = 0
    /\ rtCalls = 0
    /\ rtErr = Nil
    /\ rtRet = Nil

\* Every instance has a nic without explicit hwaddr and a disk; the nic's
\* address is in the volatile keys.
InitDev ==
    /\ xdev = [i \in InstIds |-> DefaultDevices]
    /\ lvol = [i \in InstIds |-> DefaultVolatile]
    /\ InitMount
    /\ InitRetry

InitEv ==
    /\ lpc = [l \in Conns |-> "idle"]
    /\ linst = [l \in Conns |-> NoInst]
    /\ reg = [l \in Conns |-> FALSE]
    /\ lclosed = [l \in Conns |-> FALSE]
    /\ connOpen = [l \in Conns |-> FALSE]
    /\ ctxDone = [l \in Conns |-> FALSE]
    /\ causes = [l \in Conns |-> {}]
    /\ nDereg = [l \in Conns |-> 0]
    /\ nClose = [l \in Conns |-> 0]
    /\ ltype = [l \in Conns |-> NoParam]
    /\ lfilter = [l \in Conns |-> <<>>]
    /\ published = <<>>
    /\ queue = [l \in Conns |-> <<>>]
    /\ delivered = [l \in Conns |-> <<>>]
    /\ regAt = [l \in Conns |-> 0]
    /\ failAt = [l \in Conns |-> 0]

\* The credential map under concurrent connections: two kinds of request, one
\* of them hijacking, from the root user of container c1.
ConnPeers == {Cred(3, 100000)}
ConnRequests ==
    {Req("/", "GET", "", NoKey, FALSE, FALSE),
     Req("/1.0/events", "GET", "", NoKey, FALSE, FALSE)}

Init ==
    /\ InitConn
    /\ InitCfg
    /\ InitApi
    /\ InitHost
    /\ InitDev
    /\ InitCR
    /\ InitEv
    /\ ready = [i \in InstIds |-> "false"]
    /\ idmap = [i \in InstIds |-> Idmap(FALSE, FALSE, <<IdmapEntry(0, 100000, 65536)>>)]

Next ==
    \/ \E c \in Conns : Accept(c, ConnPeers)
    \/ \E c \in Conns : ConnStateLock(c)
    \/ \E c \in Conns : ConnStateWrite(c)
    \/ \E c \in Conns : BeginRequest(c)
    \/ \E c \in Conns : LookupRead(c)
    \/ \E c \in Conns : LookupMiss(c)
    \/ \E c \in Conns : LookupNil(c)
    \/ \E c \in Conns : LookupFatal(c)
    \/ \E c \in Conns : Serve(c, ConnRequests)
    \/ \E c \in Conns : EventsRegister(c)
    \/ \E c \in Conns : EventsReturn(c)
    \/ \E c \in Conns : ListenerGone(c)
    \/ \E c \in Conns : Close(c)
    \/ \E c \in Conns : Reap(c)

Spec == Init /\ [][Next]_vars

\* The API on one connection: every request, every peer, every id-map, and
\* configuration changes between requests.
ApiConns == {1}
ApiPeers == {Cred(p, u) : p \in {3, 4, 7}, u \in {0, 1000, 100000}}

InitApiSpec ==
    /\ InitConn
    /\ InitCfg
    /\ InitApi
    /\ InitHost
    /\ InitDev
    /\ InitCR
    /\ InitEv
    /\ ready \in [InstIds -> {"", "false"}]
    /\ \A i \in InstIds : i # 1 => ready[i] = ""
    /\ idmap \in [InstIds -> IdmapChoices]
    /\ \A i \in InstIds : i # 1 => idmap[i] = NoIdmap

NextApi ==
    \/ \E c \in ApiConns : Accept(c, ApiPeers)
    \/ \E c \in ApiConns : ConnStateLock(c)
    \/ \E c \in ApiConns : ConnStateWrite(c)
    \/ \E c \in ApiConns : BeginRequest(c)
    \/ \E c \in ApiConns : LookupRead(c)
    \/ \E c \in ApiConns : Serve(c, Requests)
    \/ \E c \in ApiConns : EventsRegister(c)
    \/ \E c \in ApiConns : EventsReturn(c)
    \/ \E c \in ApiConns : ListenerGone(c)
    \/ \E c \in ApiConns : Close(c)
    \/ \E c \in ApiConns : Reap(c)
    \/ SetConfig(1)

SpecApi == InitApiSpec /\ [][NextApi]_vars

\* ------------------------------------------------------------- claims
\* The request that the step from the unprimed state answers or hijacks.
Served(c) == rq[c] = "looked" /\ rq'[c] # "looked"
ResolvedInst(c) == findContainerForPid(lk[c].cred.pid)
LiveStates == {"new", "active", "idle"}
CallbackReturned(c) == hs[c] \in {"hijacked", "closed"} /\ cb[c] = "none"

\* C1: a request whose recorded peer uid differs from the host uid of the
\* resolved container's in-namespace root is answered 401 and no handler is
\* invoked for it, whatever the endpoint and the feature toggles.
C1_NonRootDenied ==
    [][\A c \in Conns :
        (/\ Served(c)
         /\ lk[c].ok
         /\ ResolvedInst(c).k = "ret"
         /\ lk[c].cred.uid # RootUID(ResolvedInst(c).inst))
        => (/\ resp'.c = c
            /\ resp'.status = 401
            /\ resp'.body = "Access denied for non-root user"
            /\ ~resp'.ran
            /\ ~resp'.export
            /\ UNCHANGED <<ready, nReady, listeners>>)]_vars

C1_Witness ==
    /\ resp.c # 0
    /\ resp.status = 401
    /\ ~resp.ran
    /\ lk[resp.c].ok
    /\ lk[resp.c].cred.uid # RootUID(1)
    /\ cfg[1].guestapi = "false"

\* C2: once ConnStateHandler has returned for "hijacked" or "closed" on a
\* connection, pidMapper.m holds no entry for that connection.
C2_PurgedAfterCallback ==
    \A c \in Conns : CallbackReturned(c) => c \notin DOMAIN m

C2_Witness ==
    \E c, d \in Conns :
        /\ c # d
        /\ hs[c] = "hijacked"
        /\ CallbackReturned(c)
        /\ lk[c].had
        /\ d \in DOMAIN m
        /\ rq[d] = "looked"

\* C3: a handler runs for a request only if pidMapper.m held a record for the
\* request's own connection when the prologue read it.
C3_HandlerNeedsRecord ==
    /\ (resp.c # 0 /\ resp.ran) => lk[resp.c].had /\ lk[resp.c].ok
    /\ \A c \in Conns : rq[c] \in {"ws", "stream", "waiting"} => lk[c].had /\ lk[c].ok

C3_Witness ==
    /\ resp.c # 0
    /\ resp.ran
    /\ resp.status = 200
    /\ \E d \in Conns : d # resp.c /\ hs[d] = "idle" /\ d \notin DOMAIN m

\* C4: pidMapper.m holds a record only for a connection that got "new" and for
\* which the callback of "hijacked" or "closed" has not returned, the record is
\* the one of that connection, and there are never more records than such
\* connections.
C4_RecordsOnlyForLive ==
    /\ \A c \in DOMAIN m :
        /\ c \in Conns
        /\ hs[c] # "none"
        /\ ~CallbackReturned(c)
        /\ m[c] = peer[c]
    /\ Cardinality(DOMAIN m)
         <= Cardinality({c \in Conns : hs[c] # "none" /\ ~CallbackReturned(c)})

C4_Witness ==
    /\ Cardinality(DOMAIN m) = 1
    /\ \E c \in Conns : hs[c] = "closed" /\ CallbackReturned(c) /\ lk[c].had
    /\ \E c \in Conns : hs[c] = "active" /\ c \in DOMAIN m

\* C5: every access to pidMapper.m is made under mLock, so the lookup of
\* hoistReq never overlaps an insert or delete of ConnStateHandler.
C5_LookupSerialised ==
    \A c, d \in Conns : ~(rq[c] = "reading" /\ cb[d] = "write")

\* C6: with guestapi false every endpoint but "/" and GET /1.0 answers 403 and
\* writes no config, sends no lifecycle event, hijacks nothing, registers no
\* listener and calls no image export; "/" and GET /1.0 are not refused.
GatedEndpoint(path, method) ==
    path \notin {"/", "/1.0"} \/ (path = "/1.0" /\ method = "PATCH")
C6_DisabledShadowsEndpoints ==
    [][\A c \in Conns :
        (/\ Served(c)
         /\ lk[c].ok
         /\ ResolvedInst(c).k = "ret"
         /\ lk[c].cred.uid = RootUID(ResolvedInst(c).inst)
         /\ IsFalse(cfg[ResolvedInst(c).inst].guestapi))
        => (/\ resp'.c = c
            /\ resp'.ran
            /\ rq'[c] = "none"
            /\ hs'[c] # "hijacked"
            /\ GatedEndpoint(resp'.path, resp'.method)
                => (/\ resp'.status = 403
                    /\ resp'.body = "not authorized"
                    /\ ~resp'.export
                    /\ UNCHANGED <<ready, nReady, listeners, lastPatch>>)
            /\ resp'.path = "/" => resp'.status = 200
            /\ (resp'.path = "/1.0" /\ resp'.method = "GET")
                => resp'.status \in {200, 500} /\ resp'.body # "not authorized")]_vars

C6_Witness ==
    /\ resp.c # 0
    /\ resp.ran
    /\ resp.status = 403
    /\ resp.path = "/1.0"
    /\ resp.method = "PATCH"
    /\ IsFalse(cfg[1].guestapi)
    /\ nReady[1] > 0

\* C8: instance-ready lifecycle events are sent only on a transition from
\* not-ready to ready: a repeated PATCH "ready" sends no second event.
C8_NoDuplicateReadyEvent == \A i \in InstIds : nReady[i] = nTrans[i]

\* C9: GET /1.0 reports the state stored by the most recent successful PATCH,
\* and "Started" when no PATCH has stored "Ready".
C9_GetReportsLastPatch ==
    [][\A c \in Conns :
        (/\ Served(c)
         /\ resp'.c = c
         /\ resp'.ran
         /\ resp'.path = "/1.0"
         /\ resp'.method = "GET"
         /\ resp'.status = 200)
        => resp'.body = (IF lastPatch[ResolvedInst(c).inst] = "ready"
                         THEN "Ready" ELSE "Started")]_vars

C9_Witness ==
    /\ resp.c # 0
    /\ resp.ran
    /\ resp.path = "/1.0"
    /\ resp.method = "GET"
    /\ resp.status = 200
    /\ resp.body = "Ready"
    /\ lastPatch[1] = "ready"
    /\ nReady[1] = MaxPatch

\* ------------------------------------- findContainerForPid, step by step
\* The function is followed statement by statement while instances stop and
\* processes exit. crOther are the variables it leaves alone.
crOther == <<connVars, apiVars, evVars, cfgVars, devVars>>

\* The call starts: origpid := pid.
CRStart(pid) ==
    /\ crPc \in {"idle", "done"}
    /\ crPc' = "walk"
    /\ crPid' = pid
    /\ crOrig' = pid
    /\ crNs' = ""
    /\ crK' = 0
    /\ crRes' = Res("", NoInst, "", 0)
    /\ crLive' = FALSE
    /\ crPrev' = 0
    /\ UNCHANGED <<hostVars, crOther>>

\* One test of "for pid > 1" and, when it holds, one iteration of the walk.
CRWalk ==
    /\ crPc = "walk"
    /\ IF WalkDone(crPid)
       THEN /\ crPc' = "fallback"
            /\ UNCHANGED <<crPid, crRes>>
       ELSE LET r == WalkStep(crPid)
            IN /\ crPc' = CASE r.k = "climb" -> "walk"
                            [] r.k = "ret" -> "ret"
                            [] OTHER -> "done"
               /\ crPid' = IF r.k = "climb" THEN r.pid ELSE crPid
               /\ crRes' = IF r.k = "climb" THEN crRes ELSE r
    /\ crPrev' = IF WalkDone(crPid) THEN crPrev ELSE crPid
    /\ UNCHANGED <<crOrig, crNs, crK, crLive, hostVars, crOther>>

\* os.Readlink of the original pid's ns/pid and instance.LoadNodeAll.
CRFallback ==
    /\ crPc = "fallback"
    /\ IF ~CanRead(crOrig)
       THEN /\ crPc' = "done"
            /\ crRes' = Res("err", NoInst, "read", 0)
            /\ UNCHANGED <<crNs, crK>>
       ELSE /\ crPc' = "scan"
            /\ crNs' = proc[crOrig].ns
            /\ crK' = 1
            /\ crRes' = crRes
    /\ UNCHANGED <<crPid, crOrig, crLive, crPrev, hostVars, crOther>>

\* The head of the scan loop and the two checks that skip an instance.
CRScanCheck ==
    /\ crPc = "scan"
    /\ IF crK > Len(LoadNodeAll)
       THEN /\ crPc' = "done"
            /\ crRes' = Res("err", NoInst, errPIDNotInContainer, 0)
            /\ crK' = crK
       ELSE IF ~ScanCheck(LoadNodeAll[crK])
       THEN /\ crPc' = "scan"
            /\ crK' = crK + 1
            /\ crRes' = crRes
       ELSE /\ crPc' = "link"
            /\ crK' = crK
            /\ crRes' = crRes
    /\ UNCHANGED <<crPid, crOrig, crNs, crLive, crPrev, hostVars, crOther>>

\* inst.InitPID(), the read of its ns/pid link and the comparison.
CRScanLink ==
    /\ crPc = "link"
    /\ LET r == ScanLink(LoadNodeAll[crK], crNs)
       IN /\ crPc' = CASE r.k = "next" -> "scan"
                       [] r.k = "ret" -> "ret"
                       [] OTHER -> "done"
          /\ crK' = IF r.k = "next" THEN crK + 1 ELSE crK
          /\ crRes' = IF r.k = "next" THEN crRes ELSE r
    /\ UNCHANGED <<crPid, crOrig, crNs, crLive, crPrev, hostVars, crOther>>

\* The function returns the instance it found.
CRReturn ==
    /\ crPc = "ret"
    /\ crPc' = "done"
    /\ crLive' = running[crRes.inst]
    /\ UNCHANGED <<crPid, crOrig, crNs, crK, crRes, crPrev, hostVars, crOther>>

\* An instance stops: its monitor and the processes of its namespace end.
StopInstance(i) ==
    /\ running[i]
    /\ running' = [running EXCEPT ![i] = FALSE]
    /\ proc' = [p \in Pids |->
                  IF p = InstMonitorPid(i) \/ proc[p].ns = NsOf(i)
                  THEN DeadProc ELSE proc[p]]
    /\ UNCHANGED <<crVars, crOther>>

\* A process that is neither an init nor a monitor exits; its children get
\* init as their parent.
ProcExit(p) ==
    /\ p \in {4, 7}
    /\ proc[p].alive
    /\ proc' = [q \in Pids |->
                  IF q = p THEN DeadProc
                  ELSE IF proc[q].alive /\ proc[q].ppid = p
                  THEN [proc[q] EXCEPT !.ppid = 1]
                  ELSE proc[q]]
    /\ UNCHANGED <<running, crVars, crOther>>

\* The process tables the calls start from: the host process 7 may claim to be
\* the monitor of the virtual machine or of an unknown instance, or have a
\* status file without PPid line; the shell 4 may descend from it or be its own
\* parent.
Alt7 ==
    {HostProcs[7],
     Proc(TRUE, TRUE, <<"v1">>, TRUE, 1, HostNs),
     Proc(TRUE, TRUE, <<"zz">>, TRUE, 1, HostNs),
     Proc(TRUE, FALSE, <<"sh">>, TRUE, -1, HostNs)}
Alt4 ==
    {HostProcs[4],
     Proc(TRUE, FALSE, <<"sh">>, FALSE, 7, NsOf(1)),
     Proc(TRUE, FALSE, <<"sh">>, FALSE, 4, NsOf(3))}

InitCRSpec ==
    /\ InitConn
    /\ InitCfg
    /\ InitApi
    /\ InitDev
    /\ InitCR
    /\ InitEv
    /\ ready = [i \in InstIds |-> ""]
    /\ idmap = [i \in InstIds |-> NoIdmap]
    /\ running = [i \in InstIds |-> InstType(i) = "container"]
    /\ \E a \in Alt7, b \in Alt4 : proc = [HostProcs EXCEPT ![7] = a, ![4] = b]

NextCR ==
    \/ \E pid \in 0..MaxPid : CRStart(pid)
    \/ CRWalk
    \/ CRFallback
    \/ CRScanCheck
    \/ CRScanLink
    \/ CRReturn
    \/ \E i \in InstIds : StopInstance(i)
    \/ \E p \in Pids : ProcExit(p)

SpecCR == InitCRSpec /\ [][NextCR]_vars

\* C7: findContainerForPid returns only containers, and only an instance that
\* is running at the moment of the return, on the walk and on the scan, also
\* when the instance is stopped while the lookup runs.
C7_ReturnsRunningContainer ==
    (crPc = "done" /\ crRes.k = "ret")
        => (InstType(crRes.inst) = "container" /\ crLive)

\* ------------------------------------------- /1.0/events and its listeners
\* The events handler after the feature gate, one subscription per connection,
\* and the listener registry of the event server as the specification
\* describes it: a listener is removed and its transport closed when its
\* request context is cancelled, its connection fails or its instance shuts
\* down, whichever comes first.
evOther == <<connVars, apiVars, hostVars, crVars, cfgVars, devVars, pubVars>>
Bump(f, S) == [l \in Conns |-> IF l \in S THEN f[l] + 1 ELSE f[l]]

EverRegistered(l) == reg[l] \/ nDereg[l] > 0

ListenerNeverClosed(l) == FALSE
DeferredCloseNever(l) == UNCHANGED <<connOpen, nClose>>
EvCtxCancelKeepsListener(l) ==
    /\ lpc[l] \in {"waiting", "returned"}
    /\ EverRegistered(l)
    /\ ~ctxDone[l]
    /\ ctxDone' = [ctxDone EXCEPT ![l] = TRUE]
    /\ causes' = [causes EXCEPT ![l] = @ \cup {"cancel"}]
    /\ UNCHANGED <<lpc, linst, reg, lclosed, connOpen, nDereg, nClose, evOther>>

\* listener.IsClosed(), the guard of the listener's Close.
ListenerIsClosed(l) == lclosed[l]

\* Close of the listeners in S: those not yet closed leave the registry and
\* close their transport.
CloseListeners(S) ==
    LET acts == {l \in S : ~ListenerIsClosed(l)}
    IN /\ lclosed' = [l \in Conns |-> lclosed[l] \/ l \in S]
       /\ reg' = [l \in Conns |-> reg[l] /\ l \notin acts]
       /\ nDereg' = Bump(nDereg, acts)
       /\ connOpen' = [l \in Conns |-> connOpen[l] /\ l \notin acts]
       /\ nClose' = Bump(nClose, {l \in acts : connOpen[l]})


\* A request for the events of container i passed the gate: its connection
\* is upgraded or hijacked and now the handler's to close, or the upgrade or
\* the hijack fails and the handler returns the error.
EvSubscribe(l, i) ==
    /\ lpc[l] = "idle"
    /\ InstType(i) = "container"
    /\ running[i]
    /\ linst' = [linst EXCEPT ![l] = i]
    /\ \E hijacked \in BOOLEAN :
        IF hijacked
        THEN /\ lpc' = [lpc EXCEPT ![l] = "hijacked"]
             /\ connOpen' = [connOpen EXCEPT ![l] = TRUE]
        ELSE /\ lpc' = [lpc EXCEPT ![l] = "failed"]
             /\ connOpen' = connOpen
    /\ UNCHANGED <<reg, lclosed, ctxDone, causes, nDereg, nClose, evOther>>

\* The deferred conn.Close() of the handler: it closes an open connection.
DeferredClose(l) ==
    /\ connOpen' = [connOpen EXCEPT ![l] = FALSE]
    /\ nClose' = Bump(nClose, {x \in {l} : connOpen[l]})

\* Building the listener connection or AddListener fails and the handler
\* returns, or the listener is registered and the handler waits.
EvAddListener(l) ==
    /\ lpc[l] = "hijacked"
    /\ \E failed \in BOOLEAN :
        IF failed
        THEN /\ lpc' = [lpc EXCEPT ![l] = "returned"]
             /\ DeferredClose(l)
             /\ reg' = reg
        ELSE /\ lpc' = [lpc EXCEPT ![l] = "waiting"]
             /\ reg' = [reg EXCEPT ![l] = TRUE]
             /\ UNCHANGED <<connOpen, nClose>>
    /\ UNCHANGED <<linst, lclosed, ctxDone, causes, nDereg, evOther>>

\* listener.Wait(r.Context()) returns once the request context or the listener
\* has ended; the handler returns.
EvWaitReturn(l) ==
    /\ lpc[l] = "waiting"
    /\ ctxDone[l] \/ lclosed[l]
    /\ lpc' = [lpc EXCEPT ![l] = "returned"]
    /\ DeferredClose(l)
    /\ UNCHANGED <<linst, reg, lclosed, ctxDone, causes, nDereg, evOther>>

\* The request context of a subscription is cancelled.
EvCtxCancel(l) ==
    /\ lpc[l] \in {"waiting", "returned"}
    /\ EverRegistered(l)
    /\ ~ctxDone[l]
    /\ ctxDone' = [ctxDone EXCEPT ![l] = TRUE]
    /\ causes' = [causes EXCEPT ![l] = @ \cup {"cancel"}]
    /\ CloseListeners({l})
    /\ UNCHANGED <<lpc, linst, evOther>>

\* The connection of a listener fails.
EvTransportError(l) ==
    /\ EverRegistered(l)
    /\ "error" \notin causes[l]
    /\ causes' = [causes EXCEPT ![l] = @ \cup {"error"}]
    /\ CloseListeners({l})
    /\ UNCHANGED <<lpc, linst, ctxDone, evOther>>

\* An instance shuts down: its listeners are closed.
EvInstanceShutdown(i) ==
    /\ running[i]
    /\ running' = [running EXCEPT ![i] = FALSE]
    /\ LET S == {l \in Conns : linst[l] = i /\ EverRegistered(l)}
       IN /\ causes' = [l \in Conns |->
                          IF l \in S THEN causes[l] \cup {"shutdown"} ELSE causes[l]]
          /\ CloseListeners(S)
    /\ UNCHANGED <<lpc, linst, ctxDone, proc, crVars, connVars, apiVars, cfgVars,
                   devVars, pubVars>>

InitEvSpec ==
    /\ InitConn
    /\ InitCfg
    /\ InitApi
    /\ InitHost
    /\ InitDev
    /\ InitCR
    /\ InitEv
    /\ ready = [i \in InstIds |-> ""]
    /\ idmap = [i \in InstIds |-> NoIdmap]

NextEv ==
    \/ \E l \in Conns, i \in InstIds : EvSubscribe(l, i)
    \/ \E l \in Conns : EvAddListener(l)
    \/ \E l \in Conns : EvWaitReturn(l)
    \/ \E l \in Conns : EvCtxCancel(l)
    \/ \E l \in Conns : EvTransportError(l)
    \/ \E i \in InstIds : EvInstanceShutdown(i)

SpecEv == InitEvSpec /\ [][NextEv]_vars

\* Two subscriptions, each handler on a goroutine of its own: once
\* listener.Wait can return it does, and the handler goes on to its return.
FairListeners == {1, 2}
NextEvFair ==
    \/ \E l \in FairListeners, i \in InstIds : EvSubscribe(l, i)
    \/ \E l \in FairListeners : EvAddListener(l)
    \/ \E l \in FairListeners : EvWaitReturn(l)
    \/ \E l \in FairListeners : EvCtxCancel(l)
    \/ \E l \in FairListeners : EvTransportError(l)
    \/ \E i \in InstIds : EvInstanceShutdown(i)

SpecEvFair ==
    /\ InitEvSpec
    /\ [][NextEvFair]_vars
    /\ \A l \in FairListeners : WF_vars(EvWaitReturn(l))

\* C10: a registered listener is removed from the registry exactly once, by
\* the first of context cancellation, transport error and instance shutdown;
\* a later cause removes nothing and closes nothing again.
C10_DeregisteredOnce ==
    \A l \in Conns :
        EverRegistered(l)
            => (/\ nDereg[l] = (IF causes[l] = {} THEN 0 ELSE 1)
                /\ reg[l] = (causes[l] = {})
                /\ nClose[l] <= 1
                /\ connOpen[l] => reg[l])

C10_Witness ==
    \E l \in Conns :
        /\ nDereg[l] = 1
        /\ causes[l] = {"cancel", "error", "shutdown"}
        /\ nClose[l] = 1
        /\ lpc[l] = "returned"

\* --------------------------------------------- claims on the prologue
Hijacking(c) == rq[c] \in {"ws", "stream", "waiting"}

\* C11: a request whose prologue lookup finds no record is answered 500 with
\* the message "pid not in container?"; findContainerForPid is not called and
\* no handler runs for it.
C11_NoRecordRefused ==
    /\ (resp.c # 0 /\ ~lk[resp.c].ok)
        => (/\ resp.status = 500
            /\ resp.body = errPIDNotInContainer
            /\ ~resp.cr
            /\ ~resp.ran
            /\ resp.inst = NoInst)
    /\ \A c \in Conns : Hijacking(c) => lk[c].ok

C11_Witness ==
    /\ resp.c # 0
    /\ ~lk[resp.c].ok
    /\ ~lk[resp.c].had
    /\ resp.status = 500
    /\ resp.path = "/1.0/events"
    /\ \E d \in Conns : d # resp.c /\ listeners[d] # NoInst

\* C12: when linux.GetUcred fails at the "new" event of a connection the map
\* is left as it was, it never gets a record for the connection, and every
\* request on the connection is answered 500 without a handler.
C12_FailedCaptureRefused ==
    /\ [](\A c \in Conns : ucredErr[c] => c \notin DOMAIN m /\ ~Hijacking(c))
    /\ []((resp.c # 0 /\ ucredErr[resp.c])
            => (/\ resp.status = 500
                /\ resp.body = errPIDNotInContainer
                /\ ~resp.ran))
    /\ [][\A c \in Conns :
            (hs[c] = "none" /\ hs'[c] = "new" /\ ucredErr'[c])
                => (m' = m /\ cb'[c] = "none")]_vars

C12_Witness ==
    /\ resp.c # 0
    /\ ucredErr[resp.c]
    /\ resp.status = 500
    /\ \E d \in Conns : d # resp.c /\ d \in DOMAIN m /\ hs[d] = "idle"

\* C13: a lookup that succeeds returns the credentials captured at the "new"
\* event of the very connection; a connection that takes the identity of an
\* earlier one never finds the earlier one's record, whether its own capture
\* succeeded or failed.
C13_OwnCredentials ==
    /\ \A c \in Conns : lk[c].ok => lk[c].cred = peer[c]
    /\ \A c \in DOMAIN m : m[c] = peer[c] /\ ~ucredErr[c]
    /\ \A c \in Conns : (hs[c] = "new" /\ cb[c] # "none") => c \notin DOMAIN m

C13_Witness ==
    \E c \in Conns :
        /\ nReady[1] > 0
        /\ ucredErr[c]
        /\ rq[c] = "looked"
        /\ ~lk[c].ok
        /\ ~lk[c].had

\* ------------------------------------------- the handlers on one connection
\* One connection of the root user of container c1 that stays open: every
\* request, with configuration changes between and during requests.
HandlerConns == {1}
HandlerPeers == {Cred(3, 100000)}

InitHandlers ==
    /\ InitConn
    /\ InitCfg
    /\ InitApi
    /\ InitHost
    /\ InitDev
    /\ InitCR
    /\ InitEv
    /\ ready = [i \in InstIds |-> ""]
    /\ idmap = [i \in InstIds |-> Idmap(FALSE, FALSE, <<IdmapEntry(0, 100000, 65536)>>)]

NextHandlers ==
    \/ \E c \in HandlerConns : Accept(c, HandlerPeers)
    \/ \E c \in HandlerConns : ConnStateLock(c)
    \/ \E c \in HandlerConns : ConnStateWrite(c)
    \/ \E c \in HandlerConns : BeginRequest(c)
    \/ \E c \in HandlerConns : LookupRead(c)
    \/ \E c \in HandlerConns : Serve(c, Requests)
    \/ \E c \in HandlerConns : EventsRegister(c)
    \/ \E c \in HandlerConns : EventsReturn(c)
    \/ \E c \in HandlerConns : ListenerGone(c)
    \/ SetConfigAny(1)

SpecHandlers == InitHandlers /\ [][NextHandlers]_vars

\* C14: the image export handler calls imageExport only when
\* security.guestapi is not false and security.guestapi.images is true; with
\* any other value of it, a string that is not a word for true included, it
\* answers 403 and calls nothing.
ExportPath == "/1.0/images/{fingerprint}/export"
C14_ExportOnlyWhenImagesTrue ==
    (resp.c # 0 /\ resp.ran /\ resp.path = ExportPath)
        => (/\ resp.export
                <=> (~IsFalse(cfg[resp.inst].guestapi) /\ IsTrue(cfg[resp.inst].images))
            /\ ~resp.export => (resp.status = 403 /\ resp.body = "not authorized"))

\* C14, as the code has it: imageExport is called exactly when
\* security.guestapi is not false and security.guestapi.images is neither
\* unset, empty nor false; otherwise the answer is 403 and nothing is called;
\* the request passed to imageExport carries the origin "@dev_incus".
FalseWords == {"false", "0", "no", "off"}
C14_ExportUnlessImagesFalseOrEmpty ==
    (resp.c # 0 /\ resp.ran /\ resp.path = ExportPath)
        => (/\ resp.export
                <=> (/\ Lower(cfg[resp.inst].guestapi) \notin FalseWords
                     /\ Lower(cfg[resp.inst].images) \notin FalseWords \cup {""})
            /\ ~resp.export => (resp.status = 403 /\ resp.body = "not authorized")
            /\ resp.export => resp.origin = "@dev_incus")

C14_Witness ==
    /\ resp.c # 0
    /\ resp.path = ExportPath
    /\ resp.export
    /\ resp.status = 200
    /\ resp.origin = "@dev_incus"
    /\ cfg[1] = [guestapi |-> "", images |-> "maybe"]
    /\ hs[1] = "idle"

\* C15: the feature toggle is read from the expanded config when a request is
\* handled: the answer of every request, also on a connection that was open
\* before the config changed, follows the value the config has at that moment.
GateOnly(path, method) ==
    path \in {"/1.0/config", "/1.0/meta-data", "/1.0/devices"}
        \/ (path = "/1.0" /\ method = "PATCH")
C15_ToggleReadPerRequest ==
    (resp.c # 0 /\ resp.ran /\ GateOnly(resp.path, resp.method))
        => ((resp.status = 403 /\ resp.body = "not authorized")
                <=> Lower(cfg[resp.inst].guestapi) \in FalseWords)

C15_Witness ==
    /\ resp.c # 0
    /\ resp.ran
    /\ resp.path = "/1.0/config"
    /\ resp.method = "GET"
    /\ resp.status = 403
    /\ hs[resp.c] = "idle"
    /\ nReady[1] > 0

\* C16: a request whose method is not one the API lists for its endpoint is
\* answered 405 and nothing is done for it.
MethodListed(path, method) ==
    method = "GET" \/ (path = "/1.0" /\ method = "PATCH")
C16_UnlistedMethodRefused ==
    (resp.c # 0 /\ resp.ran /\ ~MethodListed(resp.path, resp.method))
        => (resp.status = 405 /\ resp.list = <<>> /\ ~resp.export)

\* C17: PATCH /1.0 with a body that is no JSON or whose state is neither
\* Started nor Ready in any letter case leaves volatile.last_state.ready as it
\* was and sends no lifecycle event; it answers 400, unless the guest API is
\* disabled and the feature gate has answered 403 before the body is read.
BadState(body) == body = "{" \/ Lower(body) \notin {"started", "ready"}
C17_BadPatchRejected ==
    [][\A c \in Conns :
        (/\ Served(c)
         /\ resp'.c = c
         /\ resp'.ran
         /\ resp'.path = "/1.0"
         /\ resp'.method = "PATCH"
         /\ BadState(resp'.reqbody))
        => (/\ resp'.status =
                  (IF Lower(cfg[resp'.inst].guestapi) \in FalseWords
                   THEN 403 ELSE 400)
            /\ UNCHANGED <<ready, nReady, lastPatch>>)]_vars

C17_Witness ==
    /\ resp.c # 0
    /\ resp.ran
    /\ resp.path = "/1.0"
    /\ resp.method = "PATCH"
    /\ resp.status = 400
    /\ resp.reqbody = "Stopped"
    /\ ready[1] = "true"
    /\ nReady[1] > 0

\* C18: a PATCH /1.0 that succeeds with state Started stores "false" in
\* volatile.last_state.ready and sends no lifecycle event, one with state Ready
\* stores "true"; nothing else of any instance's config is written.
C18_PatchStoresState ==
    [][\A c \in Conns :
        (/\ Served(c)
         /\ resp'.c = c
         /\ resp'.ran
         /\ resp'.path = "/1.0"
         /\ resp'.method = "PATCH"
         /\ resp'.status = 200)
        => (/\ Lower(resp'.reqbody) \in {"started", "ready"}
            /\ Lower(resp'.reqbody) = "started"
                => (ready'[resp'.inst] = "false" /\ nReady' = nReady)
            /\ Lower(resp'.reqbody) = "ready" => ready'[resp'.inst] = "true"
            /\ \A j \in InstIds \ {resp'.inst} : ready'[j] = ready[j]
            /\ UNCHANGED <<cfg, xcfg, idmap>>)]_vars

C18_Witness ==
    /\ resp.c # 0
    /\ resp.ran
    /\ resp.path = "/1.0"
    /\ resp.method = "PATCH"
    /\ resp.status = 200
    /\ resp.reqbody = "Started"
    /\ ready[1] = "false"
    /\ nReady[1] > 0

\* ------------------------------------------------ the config endpoints
\* The two config endpoints over every expanded config made of the known keys,
\* on one connection of the root user of container c1.
ConfigRequests ==
    {r \in Requests : r.path \in {"/1.0/config", "/1.0/config/{key}"} /\ r.method = "GET"}

InitConfig ==
    /\ InitConn
    /\ InitApi
    /\ InitHost
    /\ InitDev
    /\ InitCR
    /\ InitEv
    /\ ready = [i \in InstIds |-> ""]
    /\ idmap = [i \in InstIds |-> Idmap(FALSE, FALSE, <<IdmapEntry(0, 100000, 65536)>>)]
    /\ \E config \in ConfigMaps, other \in ConfigMaps :
        xcfg = [i \in InstIds |-> IF i = 1 THEN config
                                  ELSE IF i = 2 THEN other ELSE UserConfig]

NextConfig ==
    \/ \E c \in HandlerConns : Accept(c, HandlerPeers)
    \/ \E c \in HandlerConns : ConnStateLock(c)
    \/ \E c \in HandlerConns : ConnStateWrite(c)
    \/ \E c \in HandlerConns : BeginRequest(c)
    \/ \E c \in HandlerConns : LookupRead(c)
    \/ \E c \in HandlerConns : Serve(c, ConfigRequests)
    \/ SetConfig(1)

SpecConfig == InitConfig /\ [][NextConfig]_vars

ListedPrefixes == {"user.", "cloud-init."}
ConfigAnswer(path) ==
    /\ resp.c # 0
    /\ resp.ran
    /\ resp.path = path
    /\ Lower(cfg[resp.inst].guestapi) \notin FalseWords

\* C19: with the guest API enabled GET /1.0/config answers 200 with one entry
\* for each expanded-config key that starts with "user." or "cloud-init.", no
\* entry twice and no entry for any other key.
C19_ConfigListIsFilteredKeys ==
    ConfigAnswer("/1.0/config")
        => LET listed == {resp.list[n].key : n \in 1..Len(resp.list)}
               want == {k \in DOMAIN xcfg[resp.inst] : k.prefix \in ListedPrefixes}
           IN /\ resp.status = 200
              /\ listed = want
              /\ Len(resp.list) = Cardinality(want)
              /\ \A n \in 1..Len(resp.list) : resp.list[n].dir = "/1.0/config/"

C19_Witness ==
    /\ ConfigAnswer("/1.0/config")
    /\ Len(resp.list) = 3
    /\ DOMAIN xcfg[1] = KnownKeys

\* C20: with the guest API enabled GET /1.0/config/{key} answers 200 with the
\* raw value when the key starts with "user." or "cloud-init." and is in the
\* expanded config, 404 when such a key is not in it, and 403 for a key with
\* any other prefix, whose value is never returned.
C20_ConfigKeyByPrefix ==
    (ConfigAnswer("/1.0/config/{key}") /\ ~resp.key.bad)
        => LET key == Key(resp.key.prefix, resp.key.rest)
               config == xcfg[resp.inst]
           IN /\ resp.status =
                    (IF key.prefix \notin ListedPrefixes THEN 403
                     ELSE IF key \in DOMAIN config THEN 200 ELSE 404)
              /\ resp.status = 200 => resp.body = config[key]
              /\ \A k \in DOMAIN config :
                    k.prefix \notin ListedPrefixes => resp.body # config[k]

C20_Witness ==
    /\ ConfigAnswer("/1.0/config/{key}")
    /\ resp.key = RawKey(FALSE, "other.", "key")
    /\ resp.status = 403
    /\ Key("other.", "key") \in DOMAIN xcfg[1]
    /\ Key("user.", "none") \notin DOMAIN xcfg[1]

\* C21: when the resolved container has no id-map, the uid compared with the
\* peer's is 0: the handler is invoked for a request exactly when the recorded
\* peer uid is 0, and every other peer is answered 401.
C21_NoIdmapRootIsZero ==
    /\ \A c \in Conns :
        (/\ resp.c = c
         /\ resp.cr
         /\ resp.inst # NoInst
         /\ idmap[resp.inst] = NoIdmap)
        => (/\ RootUID(resp.inst) = 0
            /\ resp.ran <=> lk[c].cred.uid = 0
            /\ ~resp.ran => /\ resp.status = 401
                            /\ resp.body = "Access denied for non-root user")
    /\ \A c \in Conns :
        (Hijacking(c) /\ idmap[lk[c].inst] = NoIdmap) => lk[c].cred.uid = 0

C21_Witness ==
    /\ resp.c # 0
    /\ resp.inst # NoInst
    /\ idmap[resp.inst] = NoIdmap
    /\ resp.ran
    /\ resp.status = 200
    /\ lk[resp.c].cred.uid = 0

\* The refusals of the prologue of hoistReq: no credential record, the
\* resolver found no container, or the peer is not the container's root.
PrologueRefuses(c) ==
    \/ ~lk[c].ok
    \/ ResolvedInst(c).k # "ret"
    \/ lk[c].cred.uid # RootUID(ResolvedInst(c).inst)

\* C22: a request refused in the prologue changes nothing: no handler runs,
\* the body is not read, config, ready flag, events, listeners and the
\* credential map stay as they were, and the connection is not hijacked.
C22_PrologueRefusalChangesNothing ==
    [][\A c \in Conns :
        (Served(c) /\ PrologueRefuses(c))
        => (/\ resp'.c = c
            /\ resp'.status \in {401, 500}
            /\ ~resp'.ran
            /\ ~resp'.read
            /\ ~resp'.export
            /\ hs'[c] = "idle"
            /\ UNCHANGED <<m, cfg, xcfg, ready, lastPatch, nReady, nTrans,
                           listeners, idmap>>)]_vars

C22_Witness ==
    /\ resp.c # 0
    /\ resp.method = "PATCH"
    /\ resp.reqbody = "Ready"
    /\ resp.status = 401
    /\ ~resp.ran
    /\ ~resp.read
    /\ resp.c \in DOMAIN m

\* ------------------------------------------ claims on the events handler
\* C23: once the request context of a subscription is cancelled, the handler
\* eventually returns with the listener out of the registry and the
\* connection closed; no listener stays registered after its cancellation.
C23_CancelEndsSubscription ==
    \A l \in FairListeners :
        ctxDone[l] ~> (lpc[l] = "returned" /\ ~reg[l] /\ ~connOpen[l])

C23_Witness ==
    \E l \in Conns :
        /\ ctxDone[l]
        /\ causes[l] = {"cancel"}
        /\ lpc[l] = "returned"
        /\ ~reg[l]
        /\ ~connOpen[l]
        /\ nDereg[l] = 1

\* C27: when the handler has returned after the hijack or upgrade, by a
\* failure to build or register the listener or at the end of the wait, the
\* connection is closed and no listener is registered for it; a failed hijack
\* or upgrade registers no listener.
C27_ReturnClosesAndUnregisters ==
    \A l \in Conns :
        /\ lpc[l] = "returned" => (~connOpen[l] /\ ~reg[l])
        /\ lpc[l] = "failed" => (~reg[l] /\ ~EverRegistered(l))

C27_Witness ==
    \E l, k \in Conns :
        /\ lpc[l] = "returned"
        /\ ~EverRegistered(l)
        /\ nClose[l] = 1
        /\ lpc[k] = "failed"

\* ------------------------------------------------ publication and delivery
\* The event server as the specification describes it: a publication for an
\* instance is handed to every registered listener of that instance whose
\* message types hold the event's type; each listener writes its events in the
\* order they were published; a listener whose write fails is closed and
\* removed. Events are named by their position in the publish order.
MaxPub == 3
PubListeners == {1, 2}
PubInstances == {1, 3}
Event(type, inst) == [type |-> type, inst |-> inst]
PubEvents ==
    {Event("config", 1), Event("lifecycle", 1), Event("config", 3)}
pubOther ==
    <<connVars, apiVars, hostVars, crVars, cfgVars, devVars>>
Range(f) == {f[x] : x \in DOMAIN f}

MatchesType(l, ev) == <<ev.type>> \in Range(lfilter[l])

\* The test of the broadcast loop: the listener's instance and message types.
Matches(l, ev) ==
    /\ linst[l] = ev.inst
    /\ <<ev.type>> \in Range(lfilter[l])

NextToDeliverLast(q) == Len(q)

\* The position in its queue of the event a listener writes next.
NextToDeliver(q) == 1
Without(q, k) == [j \in 1..(Len(q) - 1) |-> IF j < k THEN q[j] ELSE q[j + 1]]

\* The events handler registers a listener for its instance:
\* AddListener(c.ID(), listenerConnection, strings.Split(typeStr, ",")).
PubAddListener(l, i, param) ==
    /\ lpc[l] = "idle"
    /\ \A k \in PubListeners : k < l => lpc[k] # "idle"
    /\ lpc' = [lpc EXCEPT ![l] = "waiting"]
    /\ linst' = [linst EXCEPT ![l] = i]
    /\ ltype' = [ltype EXCEPT ![l] = param]
    /\ lfilter' = [lfilter EXCEPT ![l] = MessageTypes(param)]
    /\ reg' = [reg EXCEPT ![l] = TRUE]
    /\ connOpen' = [connOpen EXCEPT ![l] = TRUE]
    /\ regAt' = [regAt EXCEPT ![l] = Len(published)]
    /\ UNCHANGED <<lclosed, ctxDone, causes, nDereg, nClose, published, queue,
                   delivered, failAt, pubOther>>

\* An event is published for an instance.
Publish(ev) ==
    /\ Len(published) < MaxPub
    /\ published' = Append(published, ev)
    /\ queue' = [l \in Conns |->
                    IF reg[l] /\ ~ListenerIsClosed(l) /\ Matches(l, ev)
                    THEN Append(queue[l], Len(published) + 1)
                    ELSE queue[l]]
    /\ UNCHANGED <<lpc, linst, reg, lclosed, connOpen, ctxDone, causes, nDereg,
                   nClose, ltype, lfilter, delivered, regAt, failAt, pubOther>>

FailListenerKeeps(l) ==
    /\ causes' = [causes EXCEPT ![l] = @ \cup {"error"}]
    /\ failAt' = [failAt EXCEPT ![l] = Len(published)]
    /\ queue' = [queue EXCEPT ![l] = Without(queue[l], NextToDeliver(queue[l]))]
    /\ UNCHANGED <<reg, lclosed, connOpen, nDereg, nClose>>

\* A failed delivery: the listener is removed and closed, with what it had
\* not yet written.
FailListener(l) ==
    /\ causes' = [causes EXCEPT ![l] = @ \cup {"error"}]
    /\ failAt' = [failAt EXCEPT ![l] = Len(published)]
    /\ queue' = [queue EXCEPT ![l] = <<>>]
    /\ CloseListeners({l})

\* A listener writes its next event to its transport; the write succeeds, or
\* it fails or times out.
Deliver(l) ==
    /\ queue[l] # <<>>
    /\ ~ListenerIsClosed(l)
    /\ \E written \in BOOLEAN :
        IF written
        THEN /\ delivered' =
                    [delivered EXCEPT ![l] = Append(@, queue[l][NextToDeliver(queue[l])])]
             /\ queue' = [queue EXCEPT ![l] = Without(@, NextToDeliver(queue[l]))]
             /\ UNCHANGED <<reg, lclosed, connOpen, causes, nDereg, nClose, failAt>>
        ELSE /\ FailListener(l)
             /\ delivered' = delivered
    /\ UNCHANGED <<lpc, linst, ctxDone, ltype, lfilter, published, regAt, pubOther>>

InitPubSpec ==
    /\ InitConn
    /\ InitCfg
    /\ InitApi
    /\ InitHost
    /\ InitDev
    /\ InitCR
    /\ InitEv
    /\ ready = [i \in InstIds |-> ""]
    /\ idmap = [i \in InstIds |-> NoIdmap]

NextPub ==
    \/ \E l \in PubListeners, i \in PubInstances, param \in TypeParams :
        PubAddListener(l, i, param)
    \/ \E ev \in PubEvents : Publish(ev)
    \/ \E l \in PubListeners : Deliver(l)

SpecPub == InitPubSpec /\ [][NextPub]_vars

\* C24: what a listener has been delivered is, in publish order, a
\* subsequence of the events published for its instance after it was
\* registered: positions in the publish order strictly increase along the
\* deliveries, and none is a publication from before the registration.
C24_DeliveredInPublishOrder ==
    \A l \in Conns :
        LET d == delivered[l]
        IN /\ \A j \in DOMAIN d :
                /\ d[j] \in (regAt[l] + 1)..Len(published)
                /\ published[d[j]].inst = linst[l]
           /\ \A j, k \in DOMAIN d : j < k => d[j] < d[k]

C24_Witness ==
    \E l \in Conns :
        /\ regAt[l] = 1
        /\ Matches(l, published[1])
        /\ delivered[l] = <<2, 3>>

\* The filter the claim describes: the words of the type parameter between
\* its commas, config and device when the parameter is absent or empty.
ClaimedFilter(l) ==
    IF ~ltype[l].present \/ ltype[l].value = <<>>
    THEN {"config", "device"}
    ELSE {ltype[l].value[j] : j \in DOMAIN ltype[l].value} \ {","}

\* C25: an event is delivered to a listener only if it is an event of the
\* instance the listener was registered for and its type is in the listener's
\* filter, which is the comma-separated type parameter, or config and device
\* without one.
C25_DeliveredOnlyIfMatching ==
    \A l \in Conns :
        /\ reg[l] \/ EverRegistered(l)
            => Range(lfilter[l]) = {<<t>> : t \in ClaimedFilter(l)}
        /\ \A j \in DOMAIN delivered[l] :
            /\ published[delivered[l][j]].inst = linst[l]
            /\ published[delivered[l][j]].type \in ClaimedFilter(l)

C25_Witness ==
    \E l \in Conns :
        /\ ~ltype[l].present
        /\ regAt[l] = 0
        /\ linst[l] = 1
        /\ published = <<Event("config", 3), Event("lifecycle", 1), Event("config", 1)>>
        /\ delivered[l] = <<3>>
        /\ queue[l] = <<>>

\* C26: a listener whose delivery failed is out of the registry with its
\* transport closed, and nothing published after the failure is delivered to
\* it; every other registered listener still has each matching event
\* published since its registration, delivered or waiting to be written.
C26_FailedListenerDropped ==
    /\ \A l \in Conns :
        "error" \in causes[l]
            => (/\ ~reg[l]
                /\ ~connOpen[l]
                /\ nDereg[l] = 1
                /\ queue[l] = <<>>
                /\ \A j \in DOMAIN delivered[l] : delivered[l][j] <= failAt[l])
    /\ \A l \in Conns :
        (reg[l] /\ ~lclosed[l])
            => \A k \in (regAt[l] + 1)..Len(published) :
                Matches(l, published[k])
                    => k \in Range(delivered[l]) \cup Range(queue[l])

C26_Witness ==
    \E l, k \in Conns :
        /\ "error" \in causes[l]
        /\ failAt[l] = 1
        /\ linst[k] = linst[l]
        /\ lfilter[k] = lfilter[l]
        /\ regAt[k] = 0
        /\ regAt[l] = 0
        /\ delivered[l] = <<>>
        /\ delivered[k] = <<1, 2>>
        /\ reg[k]

\* ------------------------------------------------ the devices endpoint
\* GET /1.0/devices over every device map and every set of volatile hwaddr
\* keys, on one connection of the root user of container c1.
DeviceRequests == {r \in Requests : r.path = "/1.0/devices" /\ r.method = "GET"}

InitDevices ==
    /\ InitConn
    /\ InitCfg
    /\ InitApi
    /\ InitHost
    /\ InitCR
    /\ InitEv
    /\ ready = [i \in InstIds |-> ""]
    /\ idmap = [i \in InstIds |-> Idmap(FALSE, FALSE, <<IdmapEntry(0, 100000, 65536)>>)]
    /\ \E devices \in DeviceMaps, localConfig \in VolatileMaps :
        /\ xdev = [i \in InstIds |-> IF i = 1 THEN devices ELSE DefaultDevices]
        /\ lvol = [i \in InstIds |-> IF i = 1 THEN localConfig ELSE DefaultVolatile]
    /\ InitMount
    /\ InitRetry

NextDevices ==
    \/ \E c \in HandlerConns : Accept(c, HandlerPeers)
    \/ \E c \in HandlerConns : ConnStateLock(c)
    \/ \E c \in HandlerConns : ConnStateWrite(c)
    \/ \E c \in HandlerConns : BeginRequest(c)
    \/ \E c \in HandlerConns : LookupRead(c)
    \/ \E c \in HandlerConns : Serve(c, DeviceRequests)
    \/ SetConfig(1)

SpecDevices == InitDevices /\ [][NextDevices]_vars

\* C28: with the guest API enabled GET /1.0/devices answers 200 with the
\* instance's devices, in which a nic whose hwaddr is empty and whose volatile
\* hwaddr key is not carries the volatile value, and every other device,
\* explicit hwaddr or other type, is as the instance has it.
C28_NicHwaddrFromVolatile ==
    (resp.c # 0 /\ resp.path = "/1.0/devices" /\ resp.ran)
        => /\ resp.status = (IF IsFalse(cfg[resp.inst].guestapi) THEN 403 ELSE 200)
           /\ resp.status = 200 =>
                LET devs == xdev[resp.inst]
                    out == resp.devices
                    vol(n) == Get(lvol[resp.inst], VolatileHwaddr(n))
                IN /\ DOMAIN out = DOMAIN devs
                   /\ \A n \in DOMAIN devs :
                        /\ Get(devs[n], "hwaddr") # "" => out[n] = devs[n]
                        /\ Get(devs[n], "type") # "nic" => out[n] = devs[n]
                        /\ vol(n) = "" => out[n] = devs[n]
                        /\ (/\ Get(devs[n], "type") = "nic"
                            /\ Get(devs[n], "hwaddr") = ""
                            /\ vol(n) # "")
                            => (/\ DOMAIN out[n] = DOMAIN devs[n] \cup {"hwaddr"}
                                /\ out[n]["hwaddr"] = vol(n)
                                /\ out[n]["type"] = "nic")

C28_Witness ==
    /\ resp.c # 0
    /\ resp.path = "/1.0/devices"
    /\ resp.status = 200
    /\ xdev[1] = [n \in DevNames |->
                    IF n = "eth0" THEN [type |-> "nic", hwaddr |-> ""]
                    ELSE [type |-> "nic", hwaddr |-> "aa:01"]]
    /\ Get(lvol[1], VolatileHwaddr("eth1")) = "bb:01"
    /\ resp.devices["eth0"]["hwaddr"] = "bb:00"
    /\ resp.devices["eth1"]["hwaddr"] = "aa:01"

\* ----------------------------------------- claims on findContainerForPid
\* The call is about to read a file that was there when it last looked: of an
\* ancestor that a live process named as its parent, of the caller after the
\* walk had read it, or of the init of an instance it found running.
RaceLost ==
    \/ crPc = "walk" /\ crPid > 1 /\ crPid # crOrig /\ ~CanRead(crPid)
    \/ crPc = "fallback" /\ crOrig > 1 /\ ~CanRead(crOrig)
    \/ crPc = "link" /\ ~CanRead(InitPID(LoadNodeAll[crK]))

\* C29: when a process or a container goes away while findContainerForPid
\* runs, a read of a process file or of a pid-namespace link that fails for
\* it ends the call in the error "pid not in container?", in no other error.
C29_FailedReadGivesStandardError ==
    [][(RaceLost /\ crPc' = "done")
        => (crRes'.k = "err" /\ crRes'.e = errPIDNotInContainer)]_vars

\* The requests of processes that are no descendants of a monitor, while
\* instances stop and processes exit between the requests: the shell 4 in the
\* namespace of c1 or of c2, as a child of init or of the host shell 7.
FallbackPeers == {Cred(p, 0) : p \in {3, 4, 7}}
FallbackRequests == {Req("/", "GET", "", NoKey, FALSE, FALSE)}
FallbackShells ==
    {HostProcs[4],
     Proc(TRUE, FALSE, <<"sh">>, FALSE, 7, NsOf(1)),
     Proc(TRUE, FALSE, <<"sh">>, FALSE, 1, NsOf(3))}

InitFallback ==
    /\ InitConn
    /\ InitCfg
    /\ InitApi
    /\ InitDev
    /\ InitCR
    /\ InitEv
    /\ ready = [i \in InstIds |-> ""]
    /\ idmap = [i \in InstIds |-> NoIdmap]
    /\ running = [i \in InstIds |-> InstType(i) = "container"]
    /\ \E sh \in FallbackShells : proc = [HostProcs EXCEPT ![4] = sh]

NextFallback ==
    \/ \E c \in HandlerConns : Accept(c, FallbackPeers)
    \/ \E c \in HandlerConns : ConnStateLock(c)
    \/ \E c \in HandlerConns : ConnStateWrite(c)
    \/ \E c \in HandlerConns : BeginRequest(c)
    \/ \E c \in HandlerConns : LookupRead(c)
    \/ \E c \in HandlerConns : Serve(c, FallbackRequests)
    \/ \E c \in HandlerConns : Close(c)
    \/ \E c \in HandlerConns : Reap(c)
    \/ \E i \in InstIds : StopInstance(i)
    \/ \E p \in Pids : ProcExit(p)

SpecFallback == InitFallback /\ [][NextFallback]_vars

\* The walk from pid ends at init without meeting a monitor.
RECURSIVE WalkEnds(_, _)
WalkEnds(pid, fuel) ==
    IF pid <= 1 THEN TRUE
    ELSE IF fuel = 0 THEN FALSE
    ELSE WalkStep(pid).k = "climb" /\ WalkEnds(WalkStep(pid).pid, fuel - 1)

\* The first instance of the node, in database order, that is a running
\* container whose init has the pid-namespace link ns.
FirstMatch(ns) ==
    LET S == {k \in DOMAIN AllInstances :
                /\ InstType(AllInstances[k]) = "container"
                /\ running[AllInstances[k]]
                /\ CanRead(InstInitPid(AllInstances[k]))
                /\ proc[InstInitPid(AllInstances[k])].ns = ns}
    IN IF S = {} THEN NoInst
       ELSE AllInstances[CHOOSE k \in S : \A j \in S : k <= j]

C31_CaptureBeforeFirstLookup ==
    \A c \in Conns :
        /\ rq[c] \in {"reading", "looked"} => cb[c] = "none"
        /\ (rq[c] = "looked" /\ ~lk[c].ok) => ucredErr[c]

\* A status file of a process that is no monitor and has no line that the
\* pattern "^PPid:\s+([0-9]+)$" matches.
NoPPidLine(pid) ==
    /\ CanRead(pid)
    /\ ~(proc[pid].monitor /\ proc[pid].nspid)
    /\ proc[pid].ppid < 0

\* C32: once an iteration of the walk has read a status file without a
\* parsable PPid line, the call has ended with an error: it does not go on
\* with that pid and does not go to the fallback.
C32_MalformedStatusIsError ==
    (crPc # "idle" /\ crPrev > 1 /\ NoPPidLine(crPrev))
        => (crPc = "done" /\ crRes.k = "err")

\* C33: the fallback runs only when the walk has left its loop at a pid <= 1:
\* for an input pid of 0 or 1 no iteration has run and no file was read, for
\* any other input the last iteration read a process that is no monitor; the
\* link the fallback reads is the one of the original pid.
C33_FallbackOnlyAfterWalk ==
    crPc \in {"fallback", "scan", "link"}
        => /\ crPid <= 1
           /\ crOrig <= 1 => (crPrev = 0 /\ crPid = crOrig)
           /\ crOrig > 1 => crPrev > 1
           /\ (crPrev > 1 /\ CanRead(crPrev))
                => ~(proc[crPrev].monitor /\ proc[crPrev].nspid)
           /\ (crPc \in {"scan", "link"} /\ CanRead(crOrig)) => crNs = proc[crOrig].ns

C33_Witness ==
    /\ crPc = "scan"
    /\ crOrig = 4
    /\ crPrev = 7
    /\ crPid = 1
    /\ crNs = NsOf(1)

\* C34: the walk ends after finitely many iterations whatever the process
\* files hold: an iteration that is about to run changes the state of the
\* call, it never leaves the call where it was.
C34_WalkTerminates ==
    crPc = "walk" => ENABLED <<CRWalk>>_vars

\* The keys of an expanded config with the prefixes user. and cloud-init.,
\* with their values.
Exposed(config) ==
    [k \in {x \in DOMAIN config : x.prefix \in ListedPrefixes} |-> config[k]]

\* Two responses that differ at most in the order of the list.
SameResponse(a, b) ==
    /\ a.status = b.status
    /\ a.body = b.body
    /\ Len(a.list) = Len(b.list)
    /\ {a.list[n] : n \in 1..Len(a.list)} = {b.list[n] : n \in 1..Len(b.list)}

\* The answer of the two config handlers to a request, for an instance.
ConfigHandler(inst, r) ==
    IF r.path = "/1.0/config" THEN devIncusConfigGet(inst, r)
    ELSE devIncusConfigKeyGet(inst, r)

\* C35: the answer to a config-list or config-key request is the one any
\* instance gives whose expanded config has the same user. and cloud-init.
\* keys and values and the same guest API toggle, whatever other keys the two
\* hold; a key of another prefix is answered 403, present or not.
C35_OtherKeysNotObservable ==
    \A i \in InstIds, j \in InstIds :
        (/\ Exposed(xcfg[i]) = Exposed(xcfg[j])
         /\ GuestapiDisabled(i) = GuestapiDisabled(j))
        => /\ \A r \in ConfigRequests :
                SameResponse(ConfigHandler(i, r), ConfigHandler(j, r))
           /\ (resp.c # 0 /\ resp.ran /\ resp.inst = i
               /\ resp.path \in {"/1.0/config", "/1.0/config/{key}"})
                => SameResponse(resp, ConfigHandler(j, resp))

C35_Witness ==
    /\ ConfigAnswer("/1.0/config/{key}")
    /\ resp.inst = 1
    /\ resp.key = RawKey(FALSE, "other.", "key")
    /\ resp.status = 403
    /\ Key("other.", "key") \in DOMAIN xcfg[1]
    /\ Key("other.", "key") \notin DOMAIN xcfg[2]
    /\ Exposed(xcfg[1]) = Exposed(xcfg[2])
    /\ Exposed(xcfg[1]) # << >>
    /\ GuestapiDisabled(1) = GuestapiDisabled(2)

\* C36: a PATCH /1.0 whose VolatileSet fails is answered 500, stores nothing
\* and sends no instance-ready event; whenever an instance-ready event is
\* sent, the same request has stored "true" in the ready flag and is answered
\* 200.
C36_FailedStoreSendsNoEvent ==
    [][/\ \A c \in Conns :
            (/\ Served(c)
             /\ resp'.c = c
             /\ resp'.ran
             /\ resp'.path = "/1.0"
             /\ resp'.method = "PATCH"
             /\ resp'.status \notin {200, 400, 403})
            => (/\ resp'.status = 500
                /\ nReady' = nReady
                /\ ready' = ready)
       /\ \A i \in InstIds :
            nReady'[i] # nReady[i]
            => (/\ nReady'[i] = nReady[i] + 1
                /\ ready'[i] = "true"
                /\ resp'.ran
                /\ resp'.inst = i
                /\ resp'.path = "/1.0"
                /\ resp'.method = "PATCH"
                /\ resp'.status = 200)]_vars

C36_Witness ==
    /\ resp.c # 0
    /\ resp.ran
    /\ resp.path = "/1.0"
    /\ resp.method = "PATCH"
    /\ resp.reqbody = "Ready"
    /\ resp.status = 500
    /\ resp.body = "VolatileSet"
    /\ ready[1] = ""
    /\ nReady[1] = 0

\* C37: when reading the id-map of the resolved container fails, the uid
\* compared with the peer's is host uid 0, whatever came back with the error:
\* the handler is invoked exactly for a peer of host uid 0, and every other
\* peer, the container's in-namespace root included, is answered 401.
C37_IdmapErrorAdmitsOnlyHostRoot ==
    /\ \A c \in Conns :
        (/\ resp.c = c
         /\ resp.cr
         /\ resp.inst # NoInst
         /\ idmap[resp.inst].err)
        => (/\ resp.ran <=> lk[c].cred.uid = 0
            /\ ~resp.ran => /\ resp.status = 401
                            /\ resp.body = "Access denied for non-root user")
    /\ \A c \in Conns :
        (Hijacking(c) /\ idmap[lk[c].inst].err) => lk[c].cred.uid = 0

C37_Witness ==
    /\ resp.c # 0
    /\ resp.cr
    /\ resp.inst # NoInst
    /\ idmap[resp.inst] = Idmap(TRUE, FALSE, <<IdmapEntry(0, 100000, 65536)>>)
    /\ lk[resp.c].cred.uid = 100000
    /\ ~resp.ran
    /\ resp.status = 401

\* ------------------------------------- the truenas driver: mount counting
\* vol.contentType
ContentType(vol) ==
    CASE vol = "vm" -> "block"
      [] vol = "ct.fsimg" -> "fs-img"
      [] OTHER -> "filesystem"

\* vol.IsVMBlock(): the block volume of a virtual machine.
IsVMBlock(vol) == vol = "vm"
isFsImgVol(vol) == ContentType(vol) = "fs-img"

\* vol.contentType == ContentTypeFS && vol.config["block.filesystem"] != ""
needsFsImgVol(vol) == ContentType(vol) = "filesystem" /\ vol = "ct"

\* The clone of a volume with content type fs-img, mounted at <path>.block.
cloneVolAsFsImgVol(vol) == "ct.fsimg"

\* vol.NewVMBlockFilesystemVolume(): the filesystem volume of the same machine.
NewVMBlockFilesystemVolume(vol) == "vm.fs"

\* The volumes both functions treat as a filesystem to mount.
FsMounted(vol) ==
    ContentType(vol) = "filesystem" \/ isFsImgVol(vol) \/ IsVMBlock(vol)

\* What goes wrong during one call: nothing, vol.MountLock, the mount of a
\* dataset, the loop device or the mount of the image, or the unmount.
MountFailures == {"none", "lock", "nfs", "loop", "umount"}

\* The state the two functions work on, and what a call leaves: the state, the
\* error ("" for nil) and ourUnmount.
MState(ref, mnt) == [ref |-> ref, mnt |-> mnt]
MRes(st, err, ours) == [st |-> st, err |-> err, ours |-> ours]

\* vol.MountRefCountIncrement() and vol.MountRefCountDecrement(), which gives
\* the new value and leaves a counter of 0 at 0.
MountRefCountIncrement(st, vol) == [st EXCEPT !.ref[vol] = @ + 1]
MountRefCountDecrement(st, vol) ==
    [st EXCEPT !.ref[vol] = IF @ > 0 THEN @ - 1 ELSE 0]

TryMount(st, path) == [st EXCEPT !.mnt[path] = TRUE]
TryUnmount(st, path) == [st EXCEPT !.mnt[path] = FALSE]

\* mountNfsDataset: the dataset is mounted at the volume's path, or both
\* attempts fail.
mountNfsDataset(st, vol, fail) ==
    IF fail = "nfs" THEN MRes(st, "mount", FALSE)
    ELSE MRes(TryMount(st, MountPath(vol)), "", FALSE)

RECURSIVE MountVolume(_, _, _)
RECURSIVE UnmountVolume(_, _, _)

\* activateAndMountFsImg: mounts the dataset that holds the image, then the
\* image through a loop device; a failure after the first unmounts it again.
activateAndMountFsImg(st, vol, fail) ==
    LET fsImgVol == cloneVolAsFsImgVol(vol)
        mnt == MountVolume(st, fsImgVol, fail)
    IN IF mnt.err # "" THEN mnt
       ELSE IF fail = "loop"
       THEN MRes(UnmountVolume(mnt.st, fsImgVol, fail).st, "loop", FALSE)
       ELSE MRes(TryMount(mnt.st, MountPath(vol)), "", FALSE)

\* deactivateVolume: detaches the loop device and unmounts the dataset that
\* holds the image.
deactivateVolume(st, vol, fail) ==
    LET fsImgVol == cloneVolAsFsImgVol(vol)
    IN IF fail = "loop" THEN MRes(st, "loop", FALSE)
       ELSE LET un == UnmountVolume(st, fsImgVol, fail)
            IN IF un.err # "" THEN MRes(un.st, un.err, FALSE)
               ELSE MRes(un.st, "", TRUE)

MountVolume(st, vol, fail) ==
    IF fail = "lock" THEN MRes(st, "lock", FALSE)
    ELSE LET first ==
                 IF FsMounted(vol)
                 THEN IF ~st.mnt[MountPath(vol)]
                      THEN IF needsFsImgVol(vol)
                           THEN activateAndMountFsImg(st, vol, fail)
                           ELSE mountNfsDataset(st, vol, fail)
                      ELSE MRes(st, "", FALSE)
                 ELSE IF ContentType(vol) \in {"block", "iso"} /\ IsVMBlock(vol)
                 THEN MountVolume(st, NewVMBlockFilesystemVolume(vol), fail)
                 ELSE MRes(st, "", FALSE)
         IN IF first.err # "" THEN first
            ELSE LET second ==
                         IF IsVMBlock(vol)
                         THEN MountVolume(first.st, NewVMBlockFilesystemVolume(vol), fail)
                         ELSE first
                 IN IF second.err # "" THEN second
                    ELSE MRes(MountRefCountIncrement(second.st, vol), "", FALSE)

\* What UnmountVolume does once the counter allows it.
UnmountNow(st, vol, fail) ==
    LET first ==
            IF FsMounted(vol) /\ st.mnt[MountPath(vol)]
            THEN IF fail = "umount" THEN MRes(st, "umount", FALSE)
                 ELSE LET un == TryUnmount(st, MountPath(vol))
                      IN IF needsFsImgVol(vol)
                         THEN LET de == deactivateVolume(un, vol, fail)
                              IN IF de.err # "" THEN MRes(de.st, de.err, FALSE)
                                 ELSE MRes(de.st, "", TRUE)
                         ELSE MRes(un, "", TRUE)
            ELSE MRes(st, "", FALSE)
    IN IF first.err # "" THEN first
       ELSE IF ContentType(vol) \in {"block", "iso"} /\ IsVMBlock(vol)
       THEN LET fs == UnmountVolume(first.st, NewVMBlockFilesystemVolume(vol), fail)
            IN IF fs.err # "" THEN MRes(fs.st, fs.err, FALSE) ELSE fs
       ELSE first

UnmountVolume(st, vol, fail) ==
    IF fail = "lock" THEN MRes(st, "lock", FALSE)
    ELSE LET dec == MountRefCountDecrement(st, vol)
         IN IF dec.ref[vol] > 0 THEN MRes(dec, "ErrInUse", FALSE)
            ELSE UnmountNow(dec, vol, fail)

\* The volumes the storage backend mounts and unmounts; the clone for the
\* image's dataset is made inside the driver only.
BackendVolumes == {"custom", "ct", "vm", "vm.fs"}

MRet(op, vol, err) ==
    [op |-> op, vol |-> vol, err |-> err, before |-> refCount[vol],
     wasMounted |-> mounted[MountPath(vol)]]

\* One call of MountVolume by the backend.
Mount(vol, fail) ==
    /\ \A v \in Volumes : refCount[v] < MaxRef
    /\ LET r == MountVolume(MState(refCount, mounted), vol, fail)
       IN /\ refCount' = r.st.ref
          /\ mounted' = r.st.mnt
          /\ held' = IF r.err = "" THEN [held EXCEPT ![vol] = @ + 1] ELSE held
          /\ mret' = MRet("mount", vol, r.err)
    /\ UNCHANGED <<connVars, apiVars, hostVars, crVars, evVars, cfgVars>>
    /\ UNCHANGED <<xdev, lvol, rtVars>>

\* One call of UnmountVolume by the backend, for a volume it has mounted.
Unmount(vol, fail) ==
    /\ held[vol] > 0
    /\ LET r == UnmountVolume(MState(refCount, mounted), vol, fail)
       IN /\ refCount' = r.st.ref
          /\ mounted' = r.st.mnt
          /\ held' = IF r.err # "lock" THEN [held EXCEPT ![vol] = @ - 1] ELSE held
          /\ mret' = MRet("unmount", vol, r.err)
    /\ UNCHANGED <<connVars, apiVars, hostVars, crVars, evVars, cfgVars>>
    /\ UNCHANGED <<xdev, lvol, rtVars>>

InitMountSpec ==
    /\ InitConn
    /\ InitCfg
    /\ InitApi
    /\ InitHost
    /\ InitDev
    /\ InitCR
    /\ InitEv
    /\ ready = [i \in InstIds |-> ""]
    /\ idmap = [i \in InstIds |-> NoIdmap]

NextMount ==
    \/ \E vol \in BackendVolumes, fail \in MountFailures : Mount(vol, fail)
    \/ \E vol \in BackendVolumes, fail \in MountFailures : Unmount(vol, fail)

SpecMount == InitMountSpec /\ [][NextMount]_vars

\* A successful MountVolume has added one to the volume's counter and leaves
\* its path mounted.
MountCounts ==
    (mret.op = "mount" /\ mret.err = "")
        => /\ refCount[mret.vol] = mret.before + 1
           /\ mounted[MountPath(mret.vol)]

\* An UnmountVolume that has unmounted the volume's path has brought the
\* counter to zero; one that has not brought it to zero returns ErrInUse and
\* leaves the path as it was.
UnmountAtZero ==
    mret.op = "unmount"
        => /\ (mret.wasMounted /\ ~mounted[MountPath(mret.vol)])
                => refCount[mret.vol] = 0
           /\ (mret.before > 1 /\ mret.err # "lock")
                => /\ mret.err = "ErrInUse"
                   /\ refCount[mret.vol] = mret.before - 1
                   /\ mounted[MountPath(mret.vol)] = mret.wasMounted

\* After n successful MountVolume calls of a volume its path is mounted
\* until the n-th UnmountVolume call.
MountedWhileHeld(vol) == held[vol] > 0 => mounted[MountPath(vol)]

\* C38: MountVolume adds one to the volume's counter on every successful
\* call, UnmountVolume unmounts the path only when it has brought the counter
\* to zero and returns ErrInUse without unmounting otherwise, and after n
\* successful MountVolume calls of a volume its path stays mounted until the
\* n-th UnmountVolume call for it.
C38_MountedUntilLastUnmount ==
    /\ MountCounts
    /\ UnmountAtZero
    /\ \A vol \in BackendVolumes : MountedWhileHeld(vol)

\* ------------------------------------------------------ Retry (database)
maxRetries == 250

\* An error is the chain errors.Unwrap walks through, outermost first; nil is
\* the empty chain. The layers: context.Canceled, sql.ErrNoRows, an
\* api.StatusError of status 404, a driver.Error of code ErrBusy or of another
\* code, sqlite3.ErrLocked, sqlite3.ErrBusy, an error whose text contains one
\* of the four transient messages, and any other error.
RetriableTexts ==
    {"database is locked", "cannot start a transaction within a transaction",
     "bad connection", "checkpoint in progress"}
ErrLayers ==
    {"context.Canceled", "sql.ErrNoRows", "404", "driver.ErrBusy", "driver.Error",
     "sqlite3.ErrLocked", "sqlite3.ErrBusy", "other"} \cup RetriableTexts
Errors ==
    {<<a>> : a \in ErrLayers}
        \cup {<<a, b>> : a \in {"other", "driver.Error", "bad connection", "404"},
                         b \in {"context.Canceled", "driver.ErrBusy", "other"}}

\* errors.Is(err, target)
Is(err, target) == \E n \in 1..Len(err) : err[n] = target

\* errors.As(err, &dErr) && dErr.Code == driver.ErrBusy: the first driver
\* error of the chain decides.
IsDriverBusy(err) ==
    \E n \in 1..Len(err) :
        /\ err[n] = "driver.ErrBusy"
        /\ \A k \in 1..(n - 1) : err[k] # "driver.Error"

\* api.StatusErrorCheck(err, http.StatusNotFound)
StatusErrorCheck(err, status) == Is(err, status)

IsRetriableError(err) ==
    \/ IsDriverBusy(err)
    \/ Is(err, "sqlite3.ErrLocked")
    \/ Is(err, "sqlite3.ErrBusy")
    \/ \E n \in 1..Len(err) : err[n] \in RetriableTexts

LoopCondInclusive(i) == i <= maxRetries

\* The loop condition of Retry.
LoopCond(i) == i < maxRetries

\* The breaks of the loop body that come before the sleep.
RetryBreaks(err, i) ==
    \/ err = Nil
    \/ Is(err, "context.Canceled")
    \/ Is(err, "sql.ErrNoRows")
    \/ StatusErrorCheck(err, "404")
    \/ ~IsRetriableError(err)
    \/ i = maxRetries

\* Retry is called.
RetryStart ==
    /\ rtPc \in {"idle", "done"}
    /\ rtPc' = "loop"
    /\ rtI' = 0
    /\ rtCalls' = 0
    /\ rtErr' = Nil
    /\ rtRet' = Nil
    /\ UNCHANGED <<connVars, apiVars, hostVars, crVars, evVars, cfgVars>>
    /\ UNCHANGED <<xdev, lvol, mntVars>>

\* One iteration: the call of the wrapped function, which returns nil or an
\* error, then a break or the sleep and i++.
RetryIter(err) ==
    /\ rtPc = "loop"
    /\ LoopCond(rtI)
    /\ rtErr' = err
    /\ rtCalls' = rtCalls + 1
    /\ IF RetryBreaks(err, rtI)
       THEN rtPc' = "ret" /\ rtI' = rtI
       ELSE rtPc' = "loop" /\ rtI' = rtI + 1
    /\ rtRet' = rtRet
    /\ UNCHANGED <<connVars, apiVars, hostVars, crVars, evVars, cfgVars>>
    /\ UNCHANGED <<xdev, lvol, mntVars>>

\* The loop condition fails.
RetryExit ==
    /\ rtPc = "loop"
    /\ ~LoopCond(rtI)
    /\ rtPc' = "ret"
    /\ UNCHANGED <<rtI, rtCalls, rtErr, rtRet>>
    /\ UNCHANGED <<connVars, apiVars, hostVars, crVars, evVars, cfgVars>>
    /\ UNCHANGED <<xdev, lvol, mntVars>>

\* return err
RetryReturn ==
    /\ rtPc = "ret"
    /\ rtPc' = "done"
    /\ rtRet' = rtErr
    /\ UNCHANGED <<rtI, rtCalls, rtErr>>
    /\ UNCHANGED <<connVars, apiVars, hostVars, crVars, evVars, cfgVars>>
    /\ UNCHANGED <<xdev, lvol, mntVars>>

InitRetrySpec ==
    /\ InitConn
    /\ InitCfg
    /\ InitApi
    /\ InitHost
    /\ InitDev
    /\ InitCR
    /\ InitEv
    /\ ready = [i \in InstIds |-> ""]
    /\ idmap = [i \in InstIds |-> NoIdmap]

NextRetry ==
    \/ RetryStart
    \/ \E err \in Errors \cup {Nil} : RetryIter(err)
    \/ RetryExit
    \/ RetryReturn

\* The wrapped function returns and the sleep ends, so a running call of Retry
\* takes its next step.
SpecRetry ==
    /\ InitRetrySpec
    /\ [][NextRetry]_vars
    /\ WF_vars(\E err \in Errors \cup {Nil} : RetryIter(err))
    /\ WF_vars(RetryExit)
    /\ WF_vars(RetryReturn)

\* The errors after which, by the claim, Retry does not call again.
StopsRetry(err) ==
    \/ err = Nil
    \/ Is(err, "context.Canceled")
    \/ Is(err, "sql.ErrNoRows")
    \/ Is(err, "404")
    \/ ~(\/ IsDriverBusy(err)
         \/ \E n \in 1..Len(err) :
              err[n] \in {"sqlite3.ErrLocked", "sqlite3.ErrBusy"} \cup RetriableTexts)

\* C39: a call of Retry makes at most maxRetries calls of the wrapped
\* function and returns: it goes on to another call only after an error that
\* is retriable and none of nil, cancelled, no-rows or not-found, it has
\* stopped at the first call that returned one of those or at the
\* maxRetries-th call, and it returns what the last call returned.
C39_RetryBoundedAndReturnsLast ==
    /\ [](/\ rtCalls <= maxRetries
          /\ (rtPc = "loop" /\ rtCalls > 0) => ~StopsRetry(rtErr)
          /\ rtPc \in {"ret", "done"}
                => /\ rtCalls >= 1
                   /\ StopsRetry(rtErr) \/ rtCalls = maxRetries
          /\ rtPc = "done" => rtRet = rtErr)
    /\ (rtPc = "loop") ~> (rtPc = "done")

C39_Witness ==
    /\ rtPc = "done"
    /\ rtCalls = maxRetries
    /\ rtRet = <<"other", "driver.ErrBusy">>
====
